---- MODULE Spec2Model ----
(***************************************************************************)
(* Masking canvas (PaintCanvas.tsx) and correction panel                   *)
(* (CorrectionPanel.tsx) of BadRobot, as a state machine.                  *)
(*                                                                         *)
(* SpecCanvas drives one PaintCanvas through its pointer handlers and its  *)
(* imperative handle (CanvasRef).  Spec drives the CorrectionPanel: two    *)
(* canvases, the palette, the panel's undo/redo/reset handle and the       *)
(* asynchronous handleGenerate, one step per awaited point.                *)
(***************************************************************************)
EXTENDS Integers, Sequences, FiniteSets, TLC

VARIABLES
    history,            \* historyRef.current of each canvas
    historyIndex,       \* historyIndexRef.current of each canvas
    isPainting,         \* isPainting state of each canvas
    currentPath,        \* currentPathRef.current of each canvas (<<>> is null)
    hasPaintedOnPath,   \* hasPaintedOnPath.current of each canvas
    referenceImage,     \* CorrectionPanel: a reference image is loaded
    colors,             \* CorrectionPanel: the palette
    correctionModes,    \* CorrectionPanel: the method chosen per colour ("auto" when none)
    activeColor,        \* CorrectionPanel: the colour handed to both canvases
    sourceActiveColors, \* CorrectionPanel state fed by the source canvas
    refActiveColors,    \* CorrectionPanel state fed by the reference canvas
    lastPaintedCanvas,  \* CorrectionPanel: "source", "ref" or "null"
    isLoading,          \* CorrectionPanel
    correctedImageUrl,  \* CorrectionPanel: <<>> is null, else the blob's <<w, h>>
    outputSizeStatus,   \* CorrectionPanel: <<>> is null, else <<w, h, ok>>
    inflight,           \* the handleGenerate invocations that have not returned
    corrected,          \* the files handed to onCorrected, as <<w, h>>
    error,              \* App: what onError last received
    correctionHistory,  \* App: what onHistoryUpdate last received
    lastOp,             \* the handler that made the last step
    transform,          \* transform state of each canvas: scale (in tenths), offsetX, offsetY
    isPanning,          \* isPanning state of each canvas
    lastPanPoint,       \* lastPanPoint.current of each canvas
    imageRenderInfo,    \* imageRenderInfoRef.current of each canvas: the placement rectangle
    container,          \* clientWidth and clientHeight of each canvas's container
    probe,              \* the input and the result of a function applied on its own
    viewEvents          \* the wheel, pan and resize events so far (bounds the model)

viewVars == <<transform, isPanning, lastPanPoint, imageRenderInfo, container>>
canvasVars == <<history, historyIndex, isPainting, currentPath, hasPaintedOnPath, viewVars>>
panelVars == <<referenceImage, colors, correctionModes, activeColor, sourceActiveColors,
               refActiveColors, lastPaintedCanvas, isLoading, correctedImageUrl,
               outputSizeStatus, inflight, corrected>>
appVars == <<error, correctionHistory>>
ghostVars == <<probe, viewEvents>>
vars == <<canvasVars, panelVars, appVars, lastOp, ghostVars>>

----------------------------------------------------------------------------
(* Bounds and input sets *)

MaxLen == 3          \* strokes a canvas history may hold
MaxSegs == 1         \* lineTo segments a gesture may record
MaxTotal == 2        \* strokes the two canvases of the panel may hold together
MaxStrokes == 2      \* strokes a canvas holds when handleGenerate is called directly
MaxInflight == 2     \* handleGenerate invocations tracked at once

Canvases == {"source", "ref"}
Colors == {"red", "blue", "green"}
Points == {<<1, 1>>}         \* pointer positions, relative to the canvas element
INITIAL_COLORS == <<"red", "blue">>
DefaultBrushSize == 30
NativeW == 2
NativeH == 2
ResultSizes == {<<NativeW, NativeH>>, <<NativeW - 1, NativeH>>}

Null == <<>>

Min(a, b) == IF a < b THEN a ELSE b
Max(a, b) == IF a > b THEN a ELSE b
Abs(a) == IF a < 0 THEN -a ELSE a
Range(s) == {s[j] : j \in 1..Len(s)}

----------------------------------------------------------------------------
(* Array helpers, as JavaScript computes them *)

\* Array.prototype.slice(0, end): a negative end counts from the back
slice(h, end) ==
    IF end >= 0 THEN SubSeq(h, 1, Min(end, Len(h)))
    ELSE SubSeq(h, 1, Max(0, Len(h) + end))

RECURSIVE filterColorNot(_, _)
filterColorNot(h, c) ==
    IF h = <<>> THEN <<>>
    ELSE IF h[1].color # c THEN <<h[1]>> \o filterColorNot(Tail(h), c)
    ELSE filterColorNot(Tail(h), c)

RECURSIVE filterColor(_, _)
filterColor(h, c) ==
    IF h = <<>> THEN <<>>
    ELSE IF h[1].color = c THEN <<h[1]>> \o filterColor(Tail(h), c)
    ELSE filterColor(Tail(h), c)

\* new Set(items.map(item => item.color)): distinct colours, first appearance first
RECURSIVE colorSet(_)
colorSet(h) ==
    IF h = <<>> THEN <<>>
    ELSE LET rest == colorSet(SubSeq(h, 1, Len(h) - 1))
             c == h[Len(h)].color
         IN IF c \in Range(rest) THEN rest ELSE Append(rest, c)

----------------------------------------------------------------------------
(* Numbers of the view: JavaScript's numbers as exact fractions <<n, d>>, d > 0 *)

RECURSIVE GCD(_, _)
GCD(a, b) == IF b = 0 THEN a ELSE GCD(b, a % b)

Norm(n, d) ==
    LET g == GCD(Abs(n), d) IN IF n = 0 THEN <<0, 1>> ELSE <<n \div g, d \div g>>
Rat(n) == <<n, 1>>
RAdd(a, b) == Norm(a[1] * b[2] + b[1] * a[2], a[2] * b[2])
RSub(a, b) == Norm(a[1] * b[2] - b[1] * a[2], a[2] * b[2])
RMul(a, b) == Norm(a[1] * b[1], a[2] * b[2])
\* a / b for b > 0
RDiv(a, b) == Norm(a[1] * b[2], a[2] * b[1])
RAbs(a) == <<Abs(a[1]), a[2]>>
RLe(a, b) == a[1] * b[2] <= b[1] * a[2]

\* transform.scale is held in tenths: 10 is the scale 1
ScaleUnit == 10
MinScale == ScaleUnit \div 10
MaxScale == 10 * ScaleUnit
scaleOf(t) == <<t.scale, ScaleUnit>>

\* useState({ scale: 1, offsetX: 0, offsetY: 0 })
DefaultTransform == [scale |-> ScaleUnit, offsetX |-> Rat(0), offsetY |-> Rat(0)]

\* Container sizes: the image's own size, twice that, and a container three
\* times as wide as the image
ContainerSizes ==
    {<<NativeW, NativeH>>, <<2 * NativeW, 2 * NativeH>>, <<3 * NativeW, NativeH>>}

\* fitAndCenterImage: the placement rectangle of the image in a container of
\* the given size (the divisions are exact for the sizes of ContainerSizes)
fitAndCenterImage(size) ==
    LET canvasWidth == size[1]
        canvasHeight == size[2]
    IN IF NativeW * canvasHeight > canvasWidth * NativeH
       THEN LET renderHeight == (canvasWidth * NativeH) \div NativeW
            IN [x |-> 0, y |-> (canvasHeight - renderHeight) \div 2,
                width |-> canvasWidth, height |-> renderHeight]
       ELSE LET renderWidth == (canvasHeight * NativeW) \div NativeH
            IN [x |-> (canvasWidth - renderWidth) \div 2, y |-> 0,
                width |-> renderWidth, height |-> canvasHeight]

\* getCoords: the pointer position p on the canvas element, and the point of
\* the placement rectangle under it
getCoords(t, info, p) ==
    LET canvasX == RDiv(RSub(Rat(p[1]), t.offsetX), scaleOf(t))
        canvasY == RDiv(RSub(Rat(p[2]), t.offsetY), scaleOf(t))
    IN [screenX |-> p[1], screenY |-> p[2],
        imageX |-> RSub(canvasX, Rat(info.x)),
        imageY |-> RSub(canvasY, Rat(info.y))]

\* The path point getCoords gives for p under the default view of a container
\* that the image fills
ImagePoint(p) == <<Rat(p[1]), Rat(p[2])>>

----------------------------------------------------------------------------
(* PaintCanvas: the history store *)

\* updateActiveColors: the set passed to onActiveColorsChange
activeColorsOf(h, i) == colorSet(slice(h, i + 1))

getHistoryState(h, i) ==
    [canUndo |-> i > -1, canRedo |-> i < Len(h) - 1]

commitHistory_NoTruncate(h, i, stroke) == Append(h, stroke)
\* stopPainting, the committing branch
commitHistory(h, i, stroke) == Append(slice(h, i + 1), stroke)

undoIndex_NoFloor(h, i) == i - 1
undoIndex(h, i) == IF i > -1 THEN i - 1 ELSE i

redoIndex_OffByOne(h, i) == IF i < Len(h) THEN i + 1 ELSE i
redoIndex_ToEnd(h, i) == IF i < Len(h) - 1 THEN Len(h) - 1 ELSE i
redoIndex(h, i) == IF i < Len(h) - 1 THEN i + 1 ELSE i

RECURSIVE deletePaths_FirstOnly(_, _)
deletePaths_FirstOnly(h, c) ==
    IF h = <<>> THEN <<>>
    ELSE IF h[1].color = c THEN Tail(h)
    ELSE <<h[1]>> \o deletePaths_FirstOnly(Tail(h), c)
deletePaths(h, c) == filterColorNot(h, c)

deleteIndex_NoClamp(h, i, c) == i
deleteIndex(h, i, c) == Min(i, Len(deletePaths(h, c)) - 1)

getMaskAsBase64_AnyColor(h, i, c) ==
    [j \in 1..Len(slice(h, i + 1)) |->
        [path |-> slice(h, i + 1)[j].path, brushSize |-> slice(h, i + 1)[j].brushSize]]
\* getMaskAsBase64: null, or the strokes the raster is drawn from
getMaskAsBase64(h, i, c) ==
    LET pathsForColor == filterColor(slice(h, i + 1), c)
    IN [j \in 1..Len(pathsForColor) |->
           [path |-> pathsForColor[j].path, brushSize |-> pathsForColor[j].brushSize]]

----------------------------------------------------------------------------
(* CorrectionPanel: what the canvases' callbacks feed *)

Mounted == referenceImage /\ correctedImageUrl = Null

updateParentHistory(h, i) ==
    [canUndo |-> getHistoryState(h["source"], i["source"]).canUndo
                 \/ getHistoryState(h["ref"], i["ref"]).canUndo,
     canRedo |-> getHistoryState(h["source"], i["source"]).canRedo
                 \/ getHistoryState(h["ref"], i["ref"]).canRedo]

pairedColorsOf_SourceOnly(src, ref) == src
pairedColorsOf(src, ref) == SelectSeq(src, LAMBDA c : c \in Range(ref))
pairedColors == pairedColorsOf(sourceActiveColors, refActiveColors)

\* The new histories and cursors are stored; every canvas in `notified` calls
\* onHistoryUpdate and updateActiveColors.
Store(newHistory, newIndex, notified) ==
    /\ history' = newHistory
    /\ historyIndex' = newIndex
    /\ sourceActiveColors' =
         IF "source" \in notified
         THEN activeColorsOf(newHistory["source"], newIndex["source"])
         ELSE sourceActiveColors
    /\ refActiveColors' =
         IF "ref" \in notified
         THEN activeColorsOf(newHistory["ref"], newIndex["ref"])
         ELSE refActiveColors
    /\ correctionHistory' =
         IF notified # {}
         THEN updateParentHistory(newHistory, newIndex)
         ELSE correctionHistory

ReportedActive(k) == IF k = "source" THEN sourceActiveColors ELSE refActiveColors

\* lastOp: the handler, the canvas and colour it was given, the length and cursor
\* of that canvas before it, and (for an undo that moved the cursor, and the redo
\* right after it) the canvas as it was before the undo.
Op(name, k, c) ==
    [op |-> name, canvas |-> k, color |-> c,
     prevLen |-> IF k \in Canvases THEN Len(history[k]) ELSE 0,
     prevIdx |-> IF k \in Canvases THEN historyIndex[k] ELSE -1,
     undone |-> <<>>]

Snapshot(k) == <<history[k], historyIndex[k], ReportedActive(k)>>

----------------------------------------------------------------------------
(* PaintCanvas: pointer handlers *)

\* coords.imageX, coords.imageY of the pointer position p on canvas k
pathPoint(k, p) ==
    LET coords == getCoords(transform[k], imageRenderInfo[k], p)
    IN <<coords.imageX, coords.imageY>>

StartPainting(k, p) ==
    /\ isPainting' = [isPainting EXCEPT ![k] = TRUE]
    /\ lastPaintedCanvas' = k
    /\ hasPaintedOnPath' = [hasPaintedOnPath EXCEPT ![k] = FALSE]
    /\ currentPath' = [currentPath EXCEPT ![k] = <<pathPoint(k, p)>>]
    /\ lastOp' = Op("startPainting", k, activeColor)
    /\ UNCHANGED <<history, historyIndex, referenceImage, colors, correctionModes, activeColor,
                   sourceActiveColors, refActiveColors, isLoading,
                   correctedImageUrl, outputSizeStatus, inflight, corrected,
                   appVars, viewVars, ghostVars>>

Paint(k, p) ==
    /\ Len(currentPath[k]) <= MaxSegs
    /\ IF isPainting[k] /\ currentPath[k] # Null
       THEN /\ currentPath' = [currentPath EXCEPT ![k] = Append(@, pathPoint(k, p))]
            /\ hasPaintedOnPath' = [hasPaintedOnPath EXCEPT ![k] = TRUE]
       ELSE UNCHANGED <<currentPath, hasPaintedOnPath>>
    /\ lastOp' = Op("paint", k, activeColor)
    /\ UNCHANGED <<history, historyIndex, isPainting, panelVars, appVars, viewVars, ghostVars>>

commits_Always(painted) == TRUE
\* if (hasPaintedOnPath.current): the gesture recorded a segment
commits(painted) == painted

stopPainting(k) ==
    /\ IF isPainting[k] /\ currentPath[k] # Null
       THEN /\ isPainting' = [isPainting EXCEPT ![k] = FALSE]
            /\ currentPath' = [currentPath EXCEPT ![k] = Null]
            /\ IF commits(hasPaintedOnPath[k])
               THEN LET stroke == [color |-> activeColor,
                                   path |-> currentPath[k],
                                   brushSize |-> DefaultBrushSize]
                        newHistory == commitHistory(history[k], historyIndex[k], stroke)
                    IN Store([history EXCEPT ![k] = newHistory],
                             [historyIndex EXCEPT ![k] = Len(newHistory) - 1],
                             {k})
               ELSE UNCHANGED <<history, historyIndex, sourceActiveColors,
                                refActiveColors, correctionHistory>>
       ELSE UNCHANGED <<history, historyIndex, isPainting, currentPath,
                        sourceActiveColors, refActiveColors, correctionHistory>>
    /\ lastOp' = Op("stopPainting", k, activeColor)
    /\ UNCHANGED <<hasPaintedOnPath, referenceImage, colors, correctionModes, activeColor,
                   lastPaintedCanvas, isLoading, correctedImageUrl,
                   outputSizeStatus, inflight, corrected, error>>

StopPainting(k) == stopPainting(k) /\ UNCHANGED <<viewVars, ghostVars>>

----------------------------------------------------------------------------
(* PaintCanvas: the imperative handle *)

panelRest == <<referenceImage, colors, correctionModes, activeColor, lastPaintedCanvas, isLoading,
               correctedImageUrl, outputSizeStatus, inflight, corrected, error>>

setCursor_Shared(index, k, i) == [o \in Canvases |-> i]
\* historyIndexRef is a ref of the component instance: each canvas has its own
setCursor(index, k, i) == [index EXCEPT ![k] = i]

Undo(k) ==
    /\ Store(history,
             setCursor(historyIndex, k, undoIndex(history[k], historyIndex[k])),
             IF historyIndex[k] > -1 THEN {k} ELSE {})
    /\ lastOp' = [Op("undo", k, activeColor) EXCEPT
                    !.undone = IF historyIndex[k] > -1 THEN Snapshot(k) ELSE <<>>]
    /\ UNCHANGED <<isPainting, currentPath, hasPaintedOnPath, panelRest, viewVars, ghostVars>>

Redo(k) ==
    /\ Store(history,
             setCursor(historyIndex, k, redoIndex(history[k], historyIndex[k])),
             IF historyIndex[k] < Len(history[k]) - 1 THEN {k} ELSE {})
    /\ lastOp' = [Op("redo", k, activeColor) EXCEPT
                    !.undone = IF lastOp.op = "undo" /\ lastOp.canvas = k
                               THEN lastOp.undone ELSE <<>>]
    /\ UNCHANGED <<isPainting, currentPath, hasPaintedOnPath, panelRest, viewVars, ghostVars>>

clearedTransform_Kept(t) == t
\* setTransform({ scale: 1, offsetX: 0, offsetY: 0 })
clearedTransform(t) == DefaultTransform

ClearCanvas(k) ==
    /\ Store([history EXCEPT ![k] = <<>>], [historyIndex EXCEPT ![k] = -1], {k})
    /\ transform' = [transform EXCEPT ![k] = clearedTransform(@)]
    /\ imageRenderInfo' = [imageRenderInfo EXCEPT ![k] = fitAndCenterImage(container[k])]
    /\ lastOp' = Op("clearCanvas", k, activeColor)
    /\ UNCHANGED <<isPainting, currentPath, hasPaintedOnPath, panelRest,
                   isPanning, lastPanPoint, container, ghostVars>>

DeletePathsForColor(k, c) ==
    /\ Store([history EXCEPT ![k] = deletePaths(history[k], c)],
             [historyIndex EXCEPT ![k] = deleteIndex(history[k], historyIndex[k], c)],
             {k})
    /\ lastOp' = Op("deletePathsForColor", k, c)
    /\ UNCHANGED <<isPainting, currentPath, hasPaintedOnPath, panelRest, viewVars, ghostVars>>

\* the `color` prop of the canvas changes
SetColor(c) ==
    /\ activeColor' = c
    /\ lastOp' = Op("setColor", "none", c)
    /\ UNCHANGED <<ghostVars, canvasVars, referenceImage, colors, correctionModes, sourceActiveColors,
                   refActiveColors, lastPaintedCanvas, isLoading,
                   correctedImageUrl, outputSizeStatus, inflight, corrected,
                   appVars>>

----------------------------------------------------------------------------
(* One mounted PaintCanvas under arbitrary use of its handlers and handle *)

\* Canvases as they mount, in containers that their images fill
InitView ==
    /\ transform = [k \in Canvases |-> DefaultTransform]
    /\ isPanning = [k \in Canvases |-> FALSE]
    /\ lastPanPoint = [k \in Canvases |-> <<0, 0>>]
    /\ container = [k \in Canvases |-> <<NativeW, NativeH>>]
    /\ imageRenderInfo = [k \in Canvases |-> fitAndCenterImage(container[k])]

InitState ==
    /\ history = [k \in Canvases |-> <<>>]
    /\ historyIndex = [k \in Canvases |-> -1]
    /\ isPainting = [k \in Canvases |-> FALSE]
    /\ currentPath = [k \in Canvases |-> Null]
    /\ hasPaintedOnPath = [k \in Canvases |-> FALSE]
    /\ colors = INITIAL_COLORS
    /\ correctionModes = [c \in Colors |-> "auto"]
    /\ activeColor = INITIAL_COLORS[1]
    /\ sourceActiveColors = <<>>
    /\ refActiveColors = <<>>
    /\ lastPaintedCanvas = "null"
    /\ isLoading = FALSE
    /\ correctedImageUrl = Null
    /\ outputSizeStatus = Null
    /\ inflight = <<>>
    /\ corrected = {}
    /\ error = [msg |-> "null", expected |-> <<>>, received |-> <<>>]
    /\ correctionHistory = [canUndo |-> FALSE, canRedo |-> FALSE]
    /\ lastOp = [op |-> "init", canvas |-> "none", color |-> INITIAL_COLORS[1],
                 prevLen |-> 0, prevIdx |-> -1, undone |-> <<>>]
    /\ InitView
    /\ viewEvents = 0

InitCommon == InitState /\ probe = Null

InitCanvas == InitCommon /\ referenceImage = TRUE

TheCanvas == "source"

CanvasNext ==
    \/ \E c \in Colors : SetColor(c)
    \/ \E p \in Points : StartPainting(TheCanvas, p)
    \/ \E p \in Points : Paint(TheCanvas, p)
    \/ Len(history[TheCanvas]) < MaxLen /\ StopPainting(TheCanvas)
    \/ Undo(TheCanvas)
    \/ Redo(TheCanvas)
    \/ ClearCanvas(TheCanvas)
    \/ \E c \in Colors : DeletePathsForColor(TheCanvas, c)

SpecCanvas == InitCanvas /\ [][CanvasNext]_vars

----------------------------------------------------------------------------
(* Stroke history store: C1 - C6, under SpecCanvas *)

IsOp(o, name, k) == o.op = name /\ o.canvas = k
ActivePositions(k) == 1..(historyIndex[k] + 1)
PositionsOf(h, c) == {j \in 1..Len(h) : h[j].color = c}
Absent(h, c) == PositionsOf(h, c) = {}

\* C1: on every canvas the cursor stays within [-1, length-1], and what the canvas
\* reports and rasterizes as active is exactly the strokes at positions <= idx.
C1_CursorInRange ==
    \A k \in Canvases :
        /\ -1 <= historyIndex[k]
        /\ historyIndex[k] <= Len(history[k]) - 1
        /\ Mounted =>
             Range(ReportedActive(k)) = {history[k][j].color : j \in ActivePositions(k)}
        /\ \A c \in Colors :
             {m.path : m \in Range(getMaskAsBase64(history[k], historyIndex[k], c))}
               = {history[k][j].path : j \in ActivePositions(k) \cap PositionsOf(history[k], c)}

C1_Witness ==
    /\ lastOp.op = "undo"
    /\ Len(history[TheCanvas]) = 3
    /\ historyIndex[TheCanvas] = 0

\* C2: committing a stroke with at least one segment keeps the first idx+1 strokes,
\* drops the rest, appends the new stroke and leaves the cursor on it, so that
\* redo has nothing to do.
C2_CommitTruncates ==
    [][\A k \in Canvases :
          (IsOp(lastOp', "stopPainting", k) /\ isPainting[k] /\ Len(currentPath[k]) >= 2)
          => /\ Len(history'[k]) = historyIndex[k] + 2
             /\ \A j \in 1..(historyIndex[k] + 1) : history'[k][j] = history[k][j]
             /\ history'[k][Len(history'[k])].color = activeColor
             /\ history'[k][Len(history'[k])].path = currentPath[k]
             /\ historyIndex'[k] = Len(history'[k]) - 1
             /\ ~getHistoryState(history'[k], historyIndex'[k]).canRedo
             /\ redoIndex(history'[k], historyIndex'[k]) = historyIndex'[k]]_vars

C2_Witness ==
    \E k \in Canvases :
        /\ IsOp(lastOp, "stopPainting", k)
        /\ lastOp.prevLen > lastOp.prevIdx + 2
        /\ Len(history[k]) = lastOp.prevIdx + 2
        /\ historyIndex[k] = Len(history[k]) - 1

\* C3: undo moves the cursor down by one unless it is -1, redo moves it up by one
\* unless it is length-1; at the floor and at the ceiling nothing changes, and
\* neither ever changes the stroke sequence.
C3_UndoRedoStep ==
    [][\A k \in Canvases :
          /\ IsOp(lastOp', "undo", k) =>
                /\ history'[k] = history[k]
                /\ historyIndex[k] > -1 => historyIndex'[k] = historyIndex[k] - 1
                /\ historyIndex[k] = -1 =>
                      UNCHANGED <<historyIndex, sourceActiveColors, refActiveColors>>
          /\ IsOp(lastOp', "redo", k) =>
                /\ history'[k] = history[k]
                /\ historyIndex[k] < Len(history[k]) - 1 =>
                      historyIndex'[k] = historyIndex[k] + 1
                /\ historyIndex[k] = Len(history[k]) - 1 =>
                      UNCHANGED <<historyIndex, sourceActiveColors, refActiveColors>>]_vars

C3_Witness ==
    \E k \in Canvases :
        /\ IsOp(lastOp, "redo", k)
        /\ lastOp.prevIdx = lastOp.prevLen - 1
        /\ lastOp.prevLen = 2
        /\ historyIndex[k] = 1

\* C4: a redo issued right after an undo that moved the cursor restores the stroke
\* sequence, the cursor and the active colours the canvas had before the undo.
C4_UndoRedoRoundTrip ==
    \A k \in Canvases :
        (IsOp(lastOp, "redo", k) /\ lastOp.undone # <<>>)
        => /\ history[k] = lastOp.undone[1]
           /\ historyIndex[k] = lastOp.undone[2]
           /\ ReportedActive(k) = lastOp.undone[3]
           /\ activeColorsOf(history[k], historyIndex[k])
                = activeColorsOf(lastOp.undone[1], lastOp.undone[2])

C4_Witness ==
    \E k \in Canvases :
        /\ IsOp(lastOp, "redo", k)
        /\ lastOp.undone # <<>>
        /\ Len(history[k]) = 3
        /\ historyIndex[k] = 1

\* The position in h of the j-th stroke whose colour is not c
KeptPosition(h, c, j) ==
    CHOOSE p \in 1..Len(h) :
        /\ h[p].color # c
        /\ Cardinality({q \in 1..p : h[q].color # c}) = j

\* C5: deletePathsForColor(c) removes every stroke of colour c, active or not,
\* keeps the others in their order and sets idx to min(idx, newLength-1); from
\* three strokes, two of them of colour c, at idx = 2 it leaves one stroke at idx = 0.
C5_DeleteColor ==
    [][\A k \in Canvases : \A c \in Colors :
          (IsOp(lastOp', "deletePathsForColor", k) /\ lastOp'.color = c)
          => /\ Absent(history'[k], c)
             /\ Len(history'[k]) = Len(history[k]) - Cardinality(PositionsOf(history[k], c))
             /\ \A j \in 1..Len(history'[k]) :
                   history'[k][j] = history[k][KeptPosition(history[k], c, j)]
             /\ historyIndex'[k] = Min(historyIndex[k], Len(history'[k]) - 1)
             /\ (Len(history[k]) = 3 /\ historyIndex[k] = 2
                   /\ Cardinality(PositionsOf(history[k], c)) = 2)
                => (Len(history'[k]) = 1 /\ historyIndex'[k] = 0)]_vars

C5_Witness ==
    \E k \in Canvases :
        /\ IsOp(lastOp, "deletePathsForColor", k)
        /\ lastOp.prevLen = 3
        /\ lastOp.prevIdx = 2
        /\ Len(history[k]) = 1
        /\ historyIndex[k] = 0

\* C6: once deletePathsForColor(c) has run on a canvas, and until a stroke of
\* colour c is committed on it, no step brings a stroke of colour c back: at every
\* cursor position undo and redo can reach, c is not active and its mask is null.
C6_DeleteIsIrreversible ==
    [][\A k \in Canvases : \A c \in Colors :
          ( /\ Absent(history[k], c)
               \/ (IsOp(lastOp', "deletePathsForColor", k) /\ lastOp'.color = c)
            /\ ~(IsOp(lastOp', "stopPainting", k) /\ activeColor = c) )
          => /\ Absent(history'[k], c)
             /\ \A i \in -1..(Len(history'[k]) - 1) :
                   /\ c \notin Range(activeColorsOf(history'[k], i))
                   /\ getMaskAsBase64(history'[k], i, c) = Null]_vars

C6_Witness ==
    \E k \in Canvases :
        /\ IsOp(lastOp, "redo", k)
        /\ lastOp.prevIdx < historyIndex[k]
        /\ Absent(history[k], "red")
        /\ "blue" \in Range(ReportedActive(k))

----------------------------------------------------------------------------
(* CorrectionPanel: palette, panel handle, reference upload *)

\* The result view replaces the canvases (and Back or reset brings new ones): a
\* PaintCanvas that is not rendered holds nothing, and one that is mounted starts
\* from its initial refs and state.
Unmounted ==
    /\ history' = [k \in Canvases |-> <<>>]
    /\ historyIndex' = [k \in Canvases |-> -1]
    /\ isPainting' = [k \in Canvases |-> FALSE]
    /\ currentPath' = [k \in Canvases |-> Null]
    /\ hasPaintedOnPath' = [k \in Canvases |-> FALSE]
    /\ transform' = [k \in Canvases |-> DefaultTransform]
    /\ isPanning' = [k \in Canvases |-> FALSE]
    /\ lastPanPoint' = [k \in Canvases |-> <<0, 0>>]
    /\ imageRenderInfo' = [k \in Canvases |-> fitAndCenterImage(container[k])]
    /\ UNCHANGED container

\* One pointer: a control outside a canvas is clicked only after the pointer has
\* left the canvas, which ends the gesture (handleMouseLeave).
PointerFree == \A k \in Canvases : ~isPainting[k]

\* The loading overlay covers the canvases and the palette
Interactive == Mounted /\ ~isLoading

Err(msg, expected, received) ==
    [msg |-> msg, expected |-> expected, received |-> received]

HandleFileSelect(valid) ==
    /\ PointerFree
    /\ ~isLoading
    /\ correctedImageUrl = Null
    /\ IF valid
       THEN /\ referenceImage' = TRUE
            /\ error' = Err("", <<>>, <<>>)
       ELSE /\ error' = Err("Unsupported file type", <<>>, <<>>)
            /\ UNCHANGED referenceImage
    /\ lastOp' = Op("handleFileSelect", "none", activeColor)
    /\ UNCHANGED <<ghostVars, canvasVars, colors, correctionModes, activeColor, sourceActiveColors,
                   refActiveColors, lastPaintedCanvas, isLoading,
                   correctedImageUrl, outputSizeStatus, inflight, corrected,
                   correctionHistory>>

SelectColor(c) ==
    /\ Interactive
    /\ PointerFree
    /\ c \in Range(colors)
    /\ SetColor(c)

DeleteColor(c) ==
    /\ Interactive
    /\ PointerFree
    /\ Len(colors) > 1
    /\ c \in Range(colors)
    /\ colors' = SelectSeq(colors, LAMBDA x : x # c)
    /\ correctionModes' = [correctionModes EXCEPT ![c] = "auto"]
    /\ Store([k \in Canvases |-> deletePaths(history[k], c)],
             [k \in Canvases |-> deleteIndex(history[k], historyIndex[k], c)],
             Canvases)
    /\ activeColor' =
         IF activeColor = c /\ Len(colors) > 1
         THEN SelectSeq(colors, LAMBDA x : x # c)[1]
         ELSE IF Len(colors) <= 1 THEN "" ELSE activeColor
    /\ lastOp' = Op("deleteColor", "none", c)
    /\ UNCHANGED <<viewVars, ghostVars, isPainting, currentPath, hasPaintedOnPath, referenceImage,
                   lastPaintedCanvas, isLoading, correctedImageUrl,
                   outputSizeStatus, inflight, corrected, error>>

undoTarget_SourceFirst ==
    IF ~Mounted THEN "none"
    ELSE IF getHistoryState(history["source"], historyIndex["source"]).canUndo
         THEN "source"
    ELSE IF getHistoryState(history["ref"], historyIndex["ref"]).canUndo
         THEN "ref"
    ELSE "none"

\* The canvas the panel's undo is dispatched to ("none": to neither)
undoTarget ==
    IF ~Mounted THEN "none"
    ELSE IF lastPaintedCanvas = "source"
            /\ getHistoryState(history["source"], historyIndex["source"]).canUndo
         THEN "source"
    ELSE IF lastPaintedCanvas = "ref"
            /\ getHistoryState(history["ref"], historyIndex["ref"]).canUndo
         THEN "ref"
    ELSE IF getHistoryState(history["source"], historyIndex["source"]).canUndo
         THEN "source"
    ELSE IF getHistoryState(history["ref"], historyIndex["ref"]).canUndo
         THEN "ref"
    ELSE "none"

redoTarget ==
    IF ~Mounted THEN "none"
    ELSE IF lastPaintedCanvas = "source"
            /\ getHistoryState(history["source"], historyIndex["source"]).canRedo
         THEN "source"
    ELSE IF lastPaintedCanvas = "ref"
            /\ getHistoryState(history["ref"], historyIndex["ref"]).canRedo
         THEN "ref"
    ELSE IF getHistoryState(history["source"], historyIndex["source"]).canRedo
         THEN "source"
    ELSE IF getHistoryState(history["ref"], historyIndex["ref"]).canRedo
         THEN "ref"
    ELSE "none"

PanelUndo ==
    IF undoTarget \in Canvases
    THEN Undo(undoTarget)
    ELSE /\ lastOp' = Op("undo", "none", activeColor)
         /\ UNCHANGED <<canvasVars, panelVars, appVars, ghostVars>>

PanelRedo ==
    IF redoTarget \in Canvases
    THEN Redo(redoTarget)
    ELSE /\ lastOp' = Op("redo", "none", activeColor)
         /\ UNCHANGED <<canvasVars, panelVars, appVars, ghostVars>>

\* App.handleReset: the panel's reset, then setError(null)
HandleReset ==
    /\ PointerFree
    /\ referenceImage
    /\ correctionHistory.canUndo
    /\ IF Mounted
       THEN Store([k \in Canvases |-> <<>>], [k \in Canvases |-> -1], Canvases)
       ELSE UNCHANGED <<history, historyIndex, sourceActiveColors, refActiveColors,
                        correctionHistory>>
    /\ correctedImageUrl' = Null
    /\ outputSizeStatus' = Null
    /\ error' = Err("null", <<>>, <<>>)
    /\ transform' = IF Mounted THEN [k \in Canvases |-> clearedTransform(transform[k])]
                    ELSE transform
    /\ imageRenderInfo' = IF Mounted THEN [k \in Canvases |-> fitAndCenterImage(container[k])]
                          ELSE imageRenderInfo
    /\ lastOp' = Op("reset", "none", activeColor)
    /\ UNCHANGED <<isPanning, lastPanPoint, container, ghostVars, isPainting, currentPath, hasPaintedOnPath, referenceImage,
                   colors, correctionModes, activeColor, lastPaintedCanvas, isLoading, inflight,
                   corrected>>

\* The result view's Back button
Back ==
    /\ correctedImageUrl # Null
    /\ correctedImageUrl' = Null
    /\ lastOp' = Op("back", "none", activeColor)
    /\ UNCHANGED <<ghostVars, canvasVars, referenceImage, colors, correctionModes, activeColor,
                   sourceActiveColors, refActiveColors, lastPaintedCanvas,
                   isLoading, outputSizeStatus, inflight, corrected, appVars>>

----------------------------------------------------------------------------
(* CorrectionPanel: handleGenerate, one step per resumption *)

GenerateEnabled_IgnoresLoading == Mounted /\ pairedColors # <<>>
\* The Generate button is rendered with the canvases and is not disabled
GenerateEnabled == Mounted /\ ~isLoading /\ pairedColors # <<>>

\* classifyPatch: the OCR stage ("throws": Tesseract rejects; "text": at least
\* three characters read with average word confidence above 60), then the
\* colour count of the visible pixels ("throws": the patch cannot be loaded;
\* "noContext"; "sparse": fewer than 50 visible pixels; "fewColors": 2..128
\* distinct colours; "manyColors": one colour or more than 128)
OcrOutcomes == {"throws", "text", "noText"}
VectorOutcomes == {"throws", "noContext", "sparse", "fewColors", "manyColors"}
classifyPatch(ocr, vec) ==
    IF ocr = "text" THEN "copy_exact"
    ELSE IF vec = "fewColors" THEN "copy_exact"
    ELSE "style_match"
Routes == {classifyPatch(ocr, vec) : ocr \in OcrOutcomes, vec \in VectorOutcomes}

methodOf_Route(route) == route
\* classification.route === 'copy_exact' ? 'extract' : 'generate'
methodOf(route) == IF route = "copy_exact" THEN "extract" ELSE "generate"

Modes == {"auto", "extract", "generate"}

\* const finalScale = img.naturalWidth / renderWidth
finalScale(renderWidth) == Norm(NativeW, renderWidth)

\* ctx.scale(finalScale, finalScale); ctx.lineWidth = brushSize * finalScale:
\* the context's scale applies to the line width as it does to the path
nativeLineWidth(brushSize, renderWidth) ==
    RMul(RMul(Rat(brushSize), finalScale(renderWidth)), finalScale(renderWidth))

\* What ctx.stroke(path) draws on the native-size raster for each stroke of a
\* mask: the path scaled by finalScale, with the line width in native pixels
nativeMask(mask, renderWidth) ==
    [j \in 1..Len(mask) |->
        [path |-> [q \in 1..Len(mask[j].path) |->
                     <<RMul(mask[j].path[q][1], finalScale(renderWidth)),
                       RMul(mask[j].path[q][2], finalScale(renderWidth))>>],
         lineWidth |-> nativeLineWidth(mask[j].brushSize, renderWidth)]]

\* The pixels of the native-size raster that the strokes of a mask set: those
\* within half a line width of a point of a drawn path
setPixels(mask, renderWidth) ==
    LET drawn == nativeMask(mask, renderWidth) IN
    {px \in (0..(NativeW - 1)) \X (0..(NativeH - 1)) :
        \E j \in 1..Len(drawn) : \E q \in 1..Len(drawn[j].path) :
            \A axis \in 1..2 :
                RLe(RMul(Rat(2), RAbs(RSub(drawn[j].path[q][axis], Rat(px[axis])))),
                    drawn[j].lineWidth)}

SetMin(S) == CHOOSE a \in S : \A b \in S : a <= b
SetMax(S) == CHOOSE a \in S : \A b \in S : a >= b

BBoxPadding == 12

\* The scan of getMaskBBox: <<minX, minY, maxX, maxY>> of the set pixels
maskExtent(pixels) ==
    <<SetMin({px[1] : px \in pixels}), SetMin({px[2] : px \in pixels}),
      SetMax({px[1] : px \in pixels}), SetMax({px[2] : px \in pixels})>>

padBBox_NoClamp(ext, naturalWidth, naturalHeight) ==
    <<ext[1] - BBoxPadding, ext[2] - BBoxPadding,
      (ext[3] - ext[1]) + 1 + (BBoxPadding * 2),
      (ext[4] - ext[2]) + 1 + (BBoxPadding * 2)>>
\* The padded box <<x, y, w, h>> around the extent, in an image of the given size
padBBox(ext, naturalWidth, naturalHeight) ==
    LET x == Max(0, ext[1] - BBoxPadding)
        y == Max(0, ext[2] - BBoxPadding)
    IN <<x, y,
         Min(naturalWidth - x, (ext[3] - ext[1]) + 1 + (BBoxPadding * 2)),
         Min(naturalHeight - y, (ext[4] - ext[2]) + 1 + (BBoxPadding * 2))>>

\* getMaskBBox: null without active strokes of the colour or without a set
\* pixel, else the padded box <<x, y, w, h>> of the set pixels
\* The scan and the padding, for a raster given by its set pixels
maskBBoxOf(pixels, naturalWidth, naturalHeight) ==
    IF pixels = {} THEN Null
    ELSE padBBox(maskExtent(pixels), naturalWidth, naturalHeight)

getMaskBBox(h, i, c, renderWidth) ==
    maskBBoxOf(setPixels(getMaskAsBase64(h, i, c), renderWidth), NativeW, NativeH)

RemoveAt(s, n) == SubSeq(s, 1, n - 1) \o SubSeq(s, n + 1, Len(s))

loadingAfter_Kept(loading) == loading
\* finally { setIsLoading(false) }
loadingAfter(loading) == FALSE

\* catch (err) { onError(msg) } finally { setIsLoading(false) }, and the call returns
Fail(n, e, name) ==
    /\ error' = e
    /\ isLoading' = loadingAfter(isLoading)
    /\ inflight' = RemoveAt(inflight, n)
    /\ lastOp' = Op(name, "none", activeColor)

genFrame == <<ghostVars, canvasVars, referenceImage, colors, correctionModes, activeColor, sourceActiveColors,
              refActiveColors, lastPaintedCanvas, correctedImageUrl,
              outputSizeStatus, corrected, correctionHistory>>

\* getMaskPNG: null, or the blob of the raster drawn for maskColor
getMaskPNG(h, i, maskColor) ==
    IF getMaskAsBase64(h, i, maskColor) = Null THEN Null
    ELSE [maskColor |-> maskColor, raster |-> getMaskAsBase64(h, i, maskColor)]

\* extractPatchForColor: null without active strokes of the colour, else the
\* source image cut to the raster of those strokes
extractPatchForColor(h, i, patchColor) == getMaskAsBase64(h, i, patchColor)

WorkerMetadata(pairs) ==
    [width |-> NativeW, height |-> NativeH, enforceFixedCanvas |-> TRUE,
     sequential |-> TRUE, pairs |-> pairs]

Field(field, index, value) == [field |-> field, index |-> index, value |-> value]

buildForm_WithPairsField(metadata, sourceMasks, referenceMasks) ==
    <<Field("source_image", -1, "distortedFile"),
      Field("reference_image", -1, "referenceFile"),
      Field("pairs", -1, Len(sourceMasks))>>
    \o [j \in 1..Len(sourceMasks) |-> Field("source_mask", j - 1, sourceMasks[j])]
    \o [j \in 1..Len(referenceMasks) |->
           Field("reference_mask", j - 1, referenceMasks[j])]
\* submitCorrection's FormData, in append order (index -1: the name has no index)
buildForm(metadata, sourceMasks, referenceMasks) ==
    <<Field("metadata", -1, metadata),
      Field("source_image", -1, "distortedFile"),
      Field("reference_image", -1, "referenceFile")>>
    \o [j \in 1..Len(sourceMasks) |-> Field("source_mask", j - 1, sourceMasks[j])]
    \o [j \in 1..Len(referenceMasks) |->
           Field("reference_mask", j - 1, referenceMasks[j])]

\* The top of the for loop for the invocation record g at position n (0: the
\* invocation is just starting): the next colour's source mask is requested, or
\* the loop is over and the request is sent, or nothing is left to send.
Iterate(n, g, name) ==
    IF g.i <= Len(g.paired)
    THEN /\ inflight' =
              LET g2 == [g EXCEPT !.pc = "refMask",
                                  !.sourceMask = getMaskPNG(history["source"],
                                                   historyIndex["source"], g.paired[g.i])]
              IN IF n = 0 THEN Append(inflight, g2) ELSE [inflight EXCEPT ![n] = g2]
         /\ isLoading' = TRUE
         /\ error' = IF n = 0 THEN Err("", <<>>, <<>>) ELSE error
         /\ lastOp' = Op(name, "none", activeColor)
    ELSE IF g.pairs = <<>>
    THEN /\ error' = Err("No valid, complete mask pairs were generated", <<>>, <<>>)
         /\ isLoading' = FALSE
         /\ inflight' = IF n = 0 THEN inflight ELSE RemoveAt(inflight, n)
         /\ lastOp' = Op("generate:noValidPairs", "none", activeColor)
    ELSE /\ inflight' =
              LET g2 == [g EXCEPT !.pc = "fetch",
                                  !.form = buildForm(WorkerMetadata(g.pairs),
                                                     g.sourceMasks, g.referenceMasks)]
              IN IF n = 0 THEN Append(inflight, g2) ELSE [inflight EXCEPT ![n] = g2]
         /\ isLoading' = TRUE
         /\ error' = IF n = 0 THEN Err("", <<>>, <<>>) ELSE error
         /\ lastOp' = Op("generate:submit", "none", activeColor)

\* The locals of a call; `resolved` notes, for each pushed pair, how its method
\* was arrived at
NewInvocation ==
    [pc |-> "start", paired |-> pairedColors, modes |-> correctionModes, i |-> 1,
     sourceMask |-> Null, refMask |-> Null, patch |-> Null,
     pairs |-> <<>>, sourceMasks |-> <<>>, referenceMasks |-> <<>>,
     resolved |-> <<>>, form |-> <<>>, response |-> <<>>, blob |-> <<>>]

\* handleGenerate, up to its first await
HandleGenerate ==
    /\ Len(inflight) < MaxInflight
    /\ IF ~Mounted
       THEN /\ error' = Err("Please upload a reference image", <<>>, <<>>)
            /\ lastOp' = Op("generate:noReference", "none", activeColor)
            /\ UNCHANGED <<isLoading, correctedImageUrl, outputSizeStatus, inflight>>
       ELSE /\ correctedImageUrl' = Null
            /\ outputSizeStatus' = Null
            /\ IF pairedColors = <<>>
               THEN /\ error' = Err("Please paint on both the source and reference images",
                                    <<>>, <<>>)
                    /\ isLoading' = FALSE
                    /\ lastOp' = Op("generate:noPairedColors", "none", activeColor)
                    /\ UNCHANGED inflight
               ELSE Iterate(0, NewInvocation, "handleGenerate")
    /\ UNCHANGED <<ghostVars, canvasVars, referenceImage, colors, correctionModes, activeColor,
                   sourceActiveColors, refActiveColors, lastPaintedCanvas,
                   corrected, correctionHistory>>

\* The click on the Generate button
ClickGenerate ==
    /\ GenerateEnabled
    /\ PointerFree
    /\ HandleGenerate

\* sourceMask has resolved; refCanvasRef.current.getMaskPNG(color) is called
GenRefMask(n) ==
    LET g == inflight[n] IN
    /\ g.pc = "refMask"
    /\ IF Mounted
       THEN /\ inflight' = [inflight EXCEPT ![n] =
                 [g EXCEPT !.pc = "check",
                           !.refMask = getMaskPNG(history["ref"],
                                         historyIndex["ref"], g.paired[g.i])]]
            /\ lastOp' = Op("generate:refMask", "none", activeColor)
            /\ UNCHANGED <<isLoading, error>>
       ELSE Fail(n, Err("TypeError", <<>>, <<>>), "generate:typeError")
    /\ UNCHANGED genFrame

\* The bounding boxes are read and the pair and its two masks are pushed
Pushed(g, method, how) ==
    [g EXCEPT !.i = g.i + 1,
              !.pairs = Append(g.pairs,
                 [colorId |-> g.paired[g.i],
                  method |-> method,
                  sourceBBox |-> getMaskBBox(history["source"],
                                   historyIndex["source"], g.paired[g.i],
                                   imageRenderInfo["source"].width),
                  referenceBBox |-> getMaskBBox(history["ref"],
                                      historyIndex["ref"], g.paired[g.i],
                                      imageRenderInfo["ref"].width)]),
              !.sourceMasks = Append(g.sourceMasks, g.sourceMask),
              !.referenceMasks = Append(g.referenceMasks, g.refMask),
              !.resolved = Append(g.resolved, how)]

\* mode: the user's selection; patch: a patch went to the classifier; failed:
\* both stages of the classifier threw
How(mode, patch, failed) == [mode |-> mode, patch |-> patch, failed |-> failed]

skipPair_DropsPairs(g) ==
    [g EXCEPT !.i = g.i + 1, !.pairs = <<>>, !.sourceMasks = <<>>,
              !.referenceMasks = <<>>, !.resolved = <<>>]
skipPair_PushesSourceMask(g) ==
    [g EXCEPT !.i = g.i + 1,
              !.sourceMasks = IF g.sourceMask # Null
                              THEN Append(g.sourceMasks, g.sourceMask)
                              ELSE g.sourceMasks]
\* continue
skipPair(g) == [g EXCEPT !.i = g.i + 1]

\* refMask has resolved: the pair is skipped, or pushed with the method the user
\* chose, or (auto) the patch is extracted for the classifier
GenCheck(n) ==
    LET g == inflight[n] IN
    /\ g.pc = "check"
    /\ IF g.sourceMask = Null \/ g.refMask = Null
       THEN Iterate(n, skipPair(g), "generate:skip")
       ELSE IF ~Mounted
       THEN Fail(n, Err("TypeError", <<>>, <<>>), "generate:typeError")
       ELSE IF g.modes[g.paired[g.i]] \in {"extract", "generate"}
       THEN Iterate(n, Pushed(g, g.modes[g.paired[g.i]],
                              How(g.modes[g.paired[g.i]], FALSE, FALSE)),
                    "generate:push")
       ELSE /\ inflight' = [inflight EXCEPT ![n] =
                 [g EXCEPT !.pc = "classify",
                           !.patch = extractPatchForColor(history["source"],
                                       historyIndex["source"], g.paired[g.i])]]
            /\ lastOp' = Op("generate:extractPatch", "none", activeColor)
            /\ UNCHANGED <<isLoading, error>>
    /\ UNCHANGED genFrame

\* The patch has resolved and, when there is one, so has the classifier: the
\* method is fixed and the pair is pushed
GenPush(n, ocr, vec) ==
    LET g == inflight[n] IN
    /\ g.pc = "classify"
    /\ g.patch = Null => ocr = "noText" /\ vec = "noContext"
    /\ IF Mounted
       THEN Iterate(n,
              IF g.patch # Null
              THEN Pushed(g, methodOf(classifyPatch(ocr, vec)),
                          How("auto", TRUE, ocr = "throws" /\ vec = "throws"))
              ELSE Pushed(g, "generate", How("auto", FALSE, FALSE)),
              "generate:push")
       ELSE Fail(n, Err("TypeError", <<>>, <<>>), "generate:typeError")
    /\ UNCHANGED genFrame

\* fetch rejects: the network failure reaches the catch of handleGenerate
GenTransportError(n) ==
    /\ inflight[n].pc = "fetch"
    /\ Fail(n, Err("Failed to fetch", <<>>, <<>>), "generate:transportError")
    /\ UNCHANGED genFrame

\* The error object the worker sends: res.status(status).json({ error, detail })
JsonErrors == [error : {"Processing failed"}, detail : {"source_image is required", ""}]

\* JSON.stringify of the error object, the text of such a body
stringify(json) ==
    "{\"error\":\"" \o json.error \o "\",\"detail\":\"" \o json.detail \o "\"}"

\* The message the server provides in its error object
serverMessage(json) == IF json.detail # "" THEN json.detail ELSE json.error

\* Response bodies: an error object, plain text, nothing, or a stream whose
\* read rejects
Bodies ==
    [kind : {"json"}, json : JsonErrors, text : {""}]
        \cup [kind : {"text"}, json : {Null}, text : {"upstream timed out"}]
        \cup [kind : {"empty", "unreadable"}, json : {Null}, text : {""}]

\* await res.text().catch(() => ''): the body as text, '' when the read rejects
resText(body) ==
    CASE body.kind = "json" -> stringify(body.json)
      [] body.kind = "text" -> body.text
      [] OTHER -> ""

\* Responses with a non-2xx status; statusText is empty over HTTP/2
FailedResponses ==
    [status : {400, 500}, statusText : {"Error", ""}, body : Bodies]

\* The usual failure of the worker: 500 with its error object
WorkerFailure ==
    [status |-> 500, statusText |-> "Error",
     body |-> [kind |-> "json",
               json |-> [error |-> "Processing failed", detail |-> "source_image is required"],
               text |-> ""]]

\* `Worker ${res.status}: ${text || res.statusText}`
submitMessage(res) ==
    "Worker " \o ToString(res.status) \o ": "
        \o (IF resText(res.body) # "" THEN resText(res.body) ELSE res.statusText)

\* The worker answers res with !res.ok: submitCorrection awaits the body text
GenNotOk(n, res) ==
    /\ inflight[n].pc = "fetch"
    /\ inflight' = [inflight EXCEPT ![n] = [@ EXCEPT !.pc = "errorBody", !.response = res]]
    /\ lastOp' = Op("generate:notOk", "none", activeColor)
    /\ UNCHANGED <<genFrame, isLoading, error>>

\* The body read settles and submitCorrection throws; handleGenerate catches
GenErrorBody(n) ==
    /\ inflight[n].pc = "errorBody"
    /\ Fail(n, Err(submitMessage(inflight[n].response), <<>>, <<>>), "generate:workerError")
    /\ UNCHANGED genFrame

\* The worker answers 200 with an image of size dims: the URL is stored, which
\* renders the result view in place of the canvases, and the image is loaded
GenResponse(n, dims) ==
    /\ inflight[n].pc = "fetch"
    /\ correctedImageUrl' = dims
    /\ Unmounted
    /\ inflight' = [inflight EXCEPT ![n] = [@ EXCEPT !.pc = "loadImage", !.blob = dims]]
    /\ lastOp' = Op(IF dims = <<NativeW, NativeH>> THEN "generate:response"
                    ELSE "generate:mismatchedResponse", "none", activeColor)
    /\ UNCHANGED <<referenceImage, colors, correctionModes, activeColor, sourceActiveColors,
                   refActiveColors, lastPaintedCanvas, isLoading, outputSizeStatus,
                   corrected, appVars, ghostVars>>

\* The result image has loaded: its size is checked against the source's
GenLoaded(n) ==
    LET g == inflight[n]
        ok == g.blob[1] = NativeW /\ g.blob[2] = NativeH
    IN
    /\ g.pc = "loadImage"
    /\ outputSizeStatus' = <<g.blob[1], g.blob[2], ok>>
    /\ IF ok
       THEN /\ corrected' = corrected \cup {g.blob}
            /\ isLoading' = FALSE
            /\ inflight' = RemoveAt(inflight, n)
            /\ lastOp' = Op("generate:corrected", "none", activeColor)
            /\ UNCHANGED error
       ELSE /\ Fail(n, Err("Dimension mismatch", <<NativeW, NativeH>>, g.blob),
                    "generate:dimensionMismatch")
            /\ UNCHANGED corrected
    /\ UNCHANGED <<ghostVars, canvasVars, referenceImage, colors, correctionModes, activeColor,
                   sourceActiveColors, refActiveColors, lastPaintedCanvas,
                   correctedImageUrl, correctionHistory>>

----------------------------------------------------------------------------
(* The correction panel *)

Init ==
    /\ InitCommon
    /\ referenceImage = FALSE

Next ==
    \/ \E valid \in BOOLEAN : HandleFileSelect(valid)
    \/ \E c \in Colors : SelectColor(c)
    \/ \E c \in Colors : DeleteColor(c)
    \/ \E k \in Canvases : \E p \in Points :
          /\ Interactive
          /\ \A o \in Canvases \ {k} : ~isPainting[o]
          /\ StartPainting(k, p)
    \/ \E k \in Canvases : \E p \in Points : Interactive /\ Paint(k, p)
    \/ \E k \in Canvases :
          /\ Interactive
          /\ Len(history[k]) < MaxLen
          /\ Len(history["source"]) + Len(history["ref"]) < MaxTotal
          /\ StopPainting(k)
    \/ PanelUndo
    \/ PanelRedo
    \/ HandleReset
    \/ Back
    \/ ClickGenerate
    \/ \E n \in 1..Len(inflight) : GenRefMask(n)
    \/ \E n \in 1..Len(inflight) : GenCheck(n)
    \/ \E n \in 1..Len(inflight) : \E ocr \in OcrOutcomes : \E vec \in VectorOutcomes :
          GenPush(n, ocr, vec)
    \/ \E n \in 1..Len(inflight) : GenTransportError(n)
    \/ \E n \in 1..Len(inflight) : GenNotOk(n, WorkerFailure)
    \/ \E n \in 1..Len(inflight) : GenErrorBody(n)
    \/ \E n \in 1..Len(inflight) : \E dims \in ResultSizes : GenResponse(n, dims)
    \/ \E n \in 1..Len(inflight) : GenLoaded(n)

Spec == Init /\ [][Next]_vars

----------------------------------------------------------------------------
(* handleGenerate called on a painted panel, with undo and redo arriving *)
(* while it runs                                                          *)

\* A position beyond the image by more than half a brush width
OffImage == ImagePoint(<<NativeW + DefaultBrushSize, NativeH + DefaultBrushSize>>)
\* Strokes over the images in every palette colour, and a stroke beside the
\* image in the first
Strokes ==
    [color : Range(INITIAL_COLORS), path : {<<ImagePoint(p), ImagePoint(p)>> : p \in Points},
     brushSize : {DefaultBrushSize}]
    \cup [color : {INITIAL_COLORS[1]}, path : {<<OffImage, OffImage>>},
          brushSize : {DefaultBrushSize}]

RECURSIVE SeqsUpTo(_, _)
SeqsUpTo(S, n) ==
    IF n = 0 THEN {<<>>}
    ELSE LET shorter == SeqsUpTo(S, n - 1)
         IN shorter \cup {Append(t, a) : t \in shorter, a \in S}

\* The user has painted and has chosen a method for the first colour
InitAssembly ==
    /\ history \in [Canvases -> SeqsUpTo(Strokes, MaxStrokes)]
    /\ historyIndex = [k \in Canvases |-> Len(history[k]) - 1]
    /\ isPainting = [k \in Canvases |-> FALSE]
    /\ currentPath = [k \in Canvases |-> Null]
    /\ hasPaintedOnPath = [k \in Canvases |-> FALSE]
    /\ referenceImage = TRUE
    /\ colors = INITIAL_COLORS
    /\ correctionModes \in {m \in [Colors -> Modes] :
                              \A c \in Colors \ {INITIAL_COLORS[1]} : m[c] = "auto"}
    /\ activeColor = INITIAL_COLORS[1]
    /\ sourceActiveColors = activeColorsOf(history["source"], historyIndex["source"])
    /\ refActiveColors = activeColorsOf(history["ref"], historyIndex["ref"])
    /\ lastPaintedCanvas \in Canvases
    /\ isLoading = FALSE
    /\ correctedImageUrl = Null
    /\ outputSizeStatus = Null
    /\ inflight = <<>>
    /\ corrected = {}
    /\ error = Err("null", <<>>, <<>>)
    /\ correctionHistory = updateParentHistory(history, historyIndex)
    /\ lastOp = [op |-> "init", canvas |-> "none", color |-> INITIAL_COLORS[1],
                 prevLen |-> 0, prevIdx |-> -1, undone |-> <<>>]
    /\ InitView
    /\ probe = Null
    /\ viewEvents = 0

\* handleGenerate is called on the painted panel
CallGenerate ==
    /\ lastOp.op = "init"
    /\ HandleGenerate

\* A call is between its first await and the sending of the request
Assembling ==
    \E n \in 1..Len(inflight) : inflight[n].pc \in {"refMask", "check", "classify"}

AssemblyNext ==
    \/ CallGenerate
    \/ Assembling /\ PanelUndo
    \/ Assembling /\ PanelRedo
    \/ \E n \in 1..Len(inflight) : GenRefMask(n)
    \/ \E n \in 1..Len(inflight) : GenCheck(n)
    \/ \E n \in 1..Len(inflight) : \E ocr \in OcrOutcomes : \E vec \in VectorOutcomes :
          GenPush(n, ocr, vec)
    \/ \E n \in 1..Len(inflight) : GenTransportError(n)
    \/ \E n \in 1..Len(inflight) : GenNotOk(n, WorkerFailure)
    \/ \E n \in 1..Len(inflight) : GenErrorBody(n)
    \/ \E n \in 1..Len(inflight) : \E dims \in ResultSizes : GenResponse(n, dims)
    \/ \E n \in 1..Len(inflight) : GenLoaded(n)

SpecAssembly == InitAssembly /\ [][AssemblyNext]_vars

----------------------------------------------------------------------------
(* Submission: C7 - C10 *)

ActiveColorsOn(k) == {history[k][j].color : j \in ActivePositions(k)}
FirstActive(k, c) ==
    CHOOSE j \in ActivePositions(k) :
        /\ history[k][j].color = c
        /\ \A m \in ActivePositions(k) : history[k][m].color = c => j <= m
Submitted == inflight[Len(inflight)].paired

\* C7: the paired-colour list a submission starts with holds exactly the
\* colours that have an active stroke (position <= idx) on both the source and
\* the reference canvas, each once, in the order of their first active stroke on
\* the source canvas; in particular it is empty when no colour is active on both.
C7_PairedListMatchesCanvases ==
    lastOp.op = "handleGenerate"
    => /\ Range(Submitted) = ActiveColorsOn("source") \cap ActiveColorsOn("ref")
       /\ \A a, b \in 1..Len(Submitted) :
             a < b => FirstActive("source", Submitted[a])
                        < FirstActive("source", Submitted[b])

\* C8: a step of a submission that fails on a transport error or on a dimension
\* mismatch (the error itself, the arrival of the mismatched response, the
\* detection of the mismatch) leaves the stroke histories, the cursors and the
\* active colours of both canvases as they were.
C8_FailedSubmissionKeepsCanvases ==
    [][lastOp'.op \in {"generate:transportError", "generate:workerError",
                       "generate:mismatchedResponse", "generate:dimensionMismatch"}
       => UNCHANGED <<history, historyIndex, sourceActiveColors, refActiveColors>>]_vars

\* C9: when the submission has ended on a result whose size differs from the
\* source's native size, the error reports the expected and the received size,
\* the result was not passed to onCorrected, and it is not left as the corrected
\* image the panel displays and offers for download.
C9_MismatchedResultNotExposed ==
    lastOp.op = "generate:dimensionMismatch"
    => /\ error.expected = <<NativeW, NativeH>>
       /\ error.received # <<>>
       /\ error.received # <<NativeW, NativeH>>
       /\ error.received \notin corrected
       /\ correctedImageUrl # error.received

\* C10: at most one submission of the panel is in flight, and while one is, the
\* panel is loading and generate cannot be started.
C10_OneSubmissionInFlight ==
    /\ Len(inflight) <= 1
    /\ inflight # <<>> => isLoading /\ ~GenerateEnabled

\* A request is with the worker while the canvases are shown and hold a paired
\* colour: only the loading state keeps generate from starting again.
C10_Witness ==
    /\ Len(inflight) = 1
    /\ inflight[1].pc = "fetch"
    /\ Mounted
    /\ pairedColors # <<>>
    /\ PointerFree

----------------------------------------------------------------------------
(* Assembly of the request: C11 - C17 *)

ActiveOnBoth == ActiveColorsOn("source") \cap ActiveColorsOn("ref")
NoPairedColorsMsg == "Please paint on both the source and reference images"
NoValidPairsMsg == "No valid, complete mask pairs were generated"
Sent(g) == g.pc \in {"fetch", "loadImage"}

\* C11: when handleGenerate is called on a panel where no colour is active on
\* both canvases, the call ends at once with the paint-on-both error, the
\* loading state cleared, and no invocation left that could send a request.
C11_EmptyPairingIsAnError ==
    [][(lastOp.op = "init" /\ ActiveOnBoth = {} /\ lastOp'.op # "init")
       => /\ error'.msg = NoPairedColorsMsg
          /\ inflight' = <<>>
          /\ ~isLoading']_vars

\* The call was refused on a panel with a colour painted on the source only.
C11_Witness ==
    /\ lastOp.op = "generate:noPairedColors"
    /\ ActiveColorsOn("source") # {}
    /\ ActiveColorsOn("ref") = {}
    /\ error.msg = NoPairedColorsMsg

\* C12: a colour for which the source or the reference mask came back null is
\* skipped: the pairs pushed so far are kept and the loop goes on with the next
\* colour; at the end of the loop the request is sent with the pairs that
\* remain, and the call fails with the no-valid-pairs error, without a request,
\* exactly when none remains.
C12_NullMaskSkipsPair ==
    [][(inflight # <<>> /\ lastOp'.op \notin {"undo", "redo"})
       => LET g == inflight[1] IN
          /\ (g.pc = "check" /\ (g.sourceMask = Null \/ g.refMask = Null))
             => IF g.i < Len(g.paired)
                THEN /\ inflight' # <<>>
                     /\ inflight'[1].pc = "refMask"
                     /\ inflight'[1].i = g.i + 1
                     /\ inflight'[1].pairs = g.pairs
                     /\ inflight'[1].sourceMasks = g.sourceMasks
                     /\ inflight'[1].referenceMasks = g.referenceMasks
                     /\ error' = error
                ELSE IF g.pairs # <<>>
                THEN /\ inflight' # <<>>
                     /\ inflight'[1].pc = "fetch"
                     /\ inflight'[1].pairs = g.pairs
                     /\ error' = error
                ELSE /\ inflight' = <<>>
                     /\ error'.msg = NoValidPairsMsg
                     /\ ~isLoading'
          /\ (g.pc \in {"check", "classify"} /\ inflight' # <<>>
              /\ inflight'[1].pc = "fetch")
             => inflight'[1].pairs # <<>>
          /\ (g.pc \in {"check", "classify"} /\ error'.msg = NoValidPairsMsg)
             => /\ g.pairs = <<>>
                /\ g.i = Len(g.paired)
                /\ g.sourceMask = Null \/ g.refMask = Null]_vars

\* A request went out with the second of two paired colours, the first skipped.
C12_Witness ==
    /\ inflight # <<>>
    /\ inflight[1].pc = "fetch"
    /\ Len(inflight[1].paired) = 2
    /\ Len(inflight[1].pairs) = 1
    /\ inflight[1].pairs[1].colorId = inflight[1].paired[2]

\* C13: no request that has been sent holds a pair whose sourceBBox or
\* referenceBBox is null.
C13_NoNullBBoxSent ==
    \A n \in 1..Len(inflight) :
        Sent(inflight[n])
        => \A j \in 1..Len(inflight[n].form[1].value.pairs) :
              /\ inflight[n].form[1].value.pairs[j].sourceBBox # Null
              /\ inflight[n].form[1].value.pairs[j].referenceBBox # Null

\* The colours named by the pairs and by the mask parts of a request
PairColors(g) == {g.form[1].value.pairs[j].colorId :
                      j \in 1..Len(g.form[1].value.pairs)}
MaskFields(g) == {j \in 1..Len(g.form) :
                      g.form[j].field \in {"source_mask", "reference_mask"}}
MaskColors(g) == {g.form[j].value.maskColor : j \in MaskFields(g)}

\* C14: when a request is sent, every colour that appears in its metadata.pairs
\* or as one of its mask parts has active strokes on both canvases; a colour
\* active on one canvas only is in neither.
C14_OnlyPairedColoursSent ==
    lastOp.op = "generate:submit"
    => \A n \in 1..Len(inflight) :
          inflight[n].pc = "fetch"
          => PairColors(inflight[n]) \cup MaskColors(inflight[n]) \subseteq ActiveOnBoth

\* The button's label, the only place where the panel speaks of a missing link
awaitingPairingShown == ~isLoading /\ pairedColors = <<>>

ActiveOnOne ==
    (ActiveColorsOn("source") \cup ActiveColorsOn("ref")) \ ActiveOnBoth

\* C15: whenever the panel is shown for painting and some colour has active
\* strokes on exactly one canvas, an awaiting-pairing indication is shown.
C15_AwaitingPairingShown ==
    (Interactive /\ ActiveOnOne # {}) => awaitingPairingShown

\* C16: a request with n pairs holds exactly the mask fields source_mask_0 ..
\* source_mask_(n-1) and reference_mask_0 .. reference_mask_(n-1), each once,
\* and the two masks of index i were rasterized for the colour of pairs[i].
C16_MasksAlignedWithPairs ==
    \A n \in 1..Len(inflight) :
        Sent(inflight[n])
        => LET form == inflight[n].form
               pairs == form[1].value.pairs
           IN /\ form[1].field = "metadata"
              /\ \A f \in {"source_mask", "reference_mask"} :
                    /\ {form[j].index : j \in {m \in 1..Len(form) : form[m].field = f}}
                         = 0..(Len(pairs) - 1)
                    /\ \A i \in 0..(Len(pairs) - 1) :
                          \E j \in 1..Len(form) :
                             /\ form[j].field = f
                             /\ form[j].index = i
                             /\ form[j].value.maskColor = pairs[i + 1].colorId
                             /\ \A m \in 1..Len(form) :
                                   (form[m].field = f /\ form[m].index = i) => m = j
              /\ \A j \in 1..Len(form) :
                    form[j].field \in {"metadata", "source_image", "reference_image",
                                       "source_mask", "reference_mask"}

\* A request went out whose only pair is the second paired colour: its masks
\* are source_mask_0 and reference_mask_0.
C16_Witness ==
    /\ inflight # <<>>
    /\ inflight[1].pc = "fetch"
    /\ Len(inflight[1].paired) = 2
    /\ Len(inflight[1].form[1].value.pairs) = 1
    /\ inflight[1].form[4].value.maskColor = inflight[1].paired[2]

InitSubmit ==
    /\ InitAssembly
    /\ \A k \in Canvases :
          /\ Len(history[k]) = 1
          /\ history[k][1].color = INITIAL_COLORS[1]
          /\ history[k][1].path[1] \in {ImagePoint(p) : p \in Points}

SubmitNext ==
    \/ CallGenerate
    \/ \E n \in 1..Len(inflight) : GenRefMask(n)
    \/ \E n \in 1..Len(inflight) : GenCheck(n)
    \/ \E n \in 1..Len(inflight) : \E ocr \in OcrOutcomes, vec \in VectorOutcomes :
          GenPush(n, ocr, vec)
    \/ \E n \in 1..Len(inflight) : GenTransportError(n)
    \/ \E n \in 1..Len(inflight) : \E res \in FailedResponses : GenNotOk(n, res)
    \/ \E n \in 1..Len(inflight) : GenErrorBody(n)
    \/ \E n \in 1..Len(inflight) : \E dims \in ResultSizes : GenResponse(n, dims)
    \/ \E n \in 1..Len(inflight) : GenLoaded(n)

SpecSubmit == InitSubmit /\ [][SubmitNext]_vars

\* The message the three tiers call for: the server's message for an error
\* object, else the raw body, else the status line
tieredMessage(res) ==
    "Worker " \o ToString(res.status) \o ": "
        \o (IF res.body.kind = "json" THEN serverMessage(res.body.json)
            ELSE IF res.body.kind = "text" THEN res.body.text
            ELSE res.statusText)

\* C18: when the body read of a non-2xx response settles, the error thrown by
\* submitCorrection carries the server's message if the body is an error
\* object, else the raw body, else (empty or unreadable body) the status line.
C18_ErrorMessageTiers ==
    [][\A n \in 1..Len(inflight) :
          inflight[n].pc = "errorBody" /\ lastOp'.op = "generate:workerError"
              => error'.msg = tieredMessage(inflight[n].response)]_vars

\* The two lower tiers alone: a body that is no error object gives the raw
\* body, or the status line when there is no text
C18_RawBodyThenStatusLine ==
    [][\A n \in 1..Len(inflight) :
          /\ inflight[n].pc = "errorBody"
          /\ lastOp'.op = "generate:workerError"
          /\ inflight[n].response.body.kind # "json"
          => error'.msg = tieredMessage(inflight[n].response)]_vars


\* ---------------------------------------------------------------------------
\* Undo and redo at the panel

Other(k) == CHOOSE o \in Canvases : o # k

\* The canvas the routing rule names: the canvas painted on last if can holds
\* of it, else the other canvas if can holds of it, else neither
Routed(can(_)) ==
    IF lastPaintedCanvas \in Canvases /\ can(lastPaintedCanvas)
    THEN lastPaintedCanvas
    ELSE IF lastPaintedCanvas \in Canvases /\ can(Other(lastPaintedCanvas))
    THEN Other(lastPaintedCanvas)
    ELSE "none"

CanUndoNow(k) == historyIndex[k] > -1
CanRedoNow(k) == historyIndex[k] < Len(history[k]) - 1

\* Only the cursor of canvas t moves, by d; the histories stay
MovesOnly(t, d) ==
    /\ history' = history
    /\ IF t \in Canvases
       THEN historyIndex' = [historyIndex EXCEPT ![t] = @ + d]
       ELSE historyIndex' = historyIndex

\* C19: an undo at the panel moves back by one the cursor of the canvas painted
\* on last if that canvas can undo, else the cursor of the other canvas if it
\* can, else nothing; a redo moves forward by one the cursor chosen the same
\* way with "can redo". No other cursor and no history changes.
C19_UndoRedoRouting ==
    [][/\ lastOp'.op = "undo" => MovesOnly(Routed(CanUndoNow), -1)
       /\ lastOp'.op = "redo" => MovesOnly(Routed(CanRedoNow), 1)]_vars

\* An undo that fell back to the canvas that was not painted on last
C19_Witness ==
    /\ lastOp.op = "undo"
    /\ lastPaintedCanvas \in Canvases
    /\ lastOp.canvas = Other(lastPaintedCanvas)
    /\ historyIndex[lastOp.canvas] = lastOp.prevIdx - 1


\* ---------------------------------------------------------------------------
\* The availability of undo and redo reported to the parent

\* C20: in every reachable state the availability held by the parent, which
\* enables the Undo, Redo and Reset controls, is the one computed from the
\* present histories and cursors of the two canvases: canUndo iff one cursor is
\* above -1, canRedo iff one cursor is below the last index of its history.
C20_ReportedAvailabilityIsCurrent ==
    correctionHistory =
        [canUndo |-> \E k \in Canvases : historyIndex[k] > -1,
         canRedo |-> \E k \in Canvases : historyIndex[k] < Len(history[k]) - 1]

\* What does hold: a step that changes a history or a cursor of the mounted
\* canvases leaves the parent with the availability computed from the new ones
C20_RecomputedOnChange ==
    [][(<<history, historyIndex>>' # <<history, historyIndex>> /\ Mounted')
          => C20_ReportedAvailabilityIsCurrent']_vars


----------------------------------------------------------------------------
(* PaintCanvas: the view (wheel zoom, middle-button pan, resize, image load) *)

MaxViewEvents == 2   \* wheel, pan and resize events in a behaviour
MaxViewStrokes == 1  \* strokes the canvas may hold while its view is driven

ViewPoints == {<<0, 0>>, <<2, 1>>}
Buttons == {0, 1, 2}
WheelDeltas == {-100, 100, -20000, 20000}    \* deltaY of a wheel event

\* const scaleAmount = -e.deltaY * 0.001, in tenths
scaleAmount(deltaY) == (-deltaY * ScaleUnit) \div 1000

clampScale_Unclamped(scale) == scale
\* Math.max(0.1, Math.min(10, scale))
clampScale(scale) == Max(MinScale, Min(MaxScale, scale))


handleWheel_OffsetKept(prev, mouse, deltaY) ==
    [prev EXCEPT !.scale = clampScale(prev.scale + scaleAmount(deltaY))]

\* handleWheel's update of the transform, for the pointer at mouse
handleWheel(prev, mouse, deltaY) ==
    LET newScale == clampScale(prev.scale + scaleAmount(deltaY))
        ratio == <<newScale, prev.scale>>
    IN [scale |-> newScale,
        offsetX |-> RSub(Rat(mouse[1]), RMul(RSub(Rat(mouse[1]), prev.offsetX), ratio)),
        offsetY |-> RSub(Rat(mouse[2]), RMul(RSub(Rat(mouse[2]), prev.offsetY), ratio))]

\* setTransform(prev => ({...prev, offsetX: prev.offsetX + dx, offsetY: prev.offsetY + dy}))
panned(prev, dx, dy) ==
    [prev EXCEPT !.offsetX = RAdd(@, Rat(dx)), !.offsetY = RAdd(@, Rat(dy))]

\* What the view handlers leave alone
strokeVars == <<history, historyIndex, isPainting, currentPath, hasPaintedOnPath>>
viewFrame == <<strokeVars, panelVars, appVars, probe>>

HandleWheel(k, mouse, deltaY) ==
    /\ viewEvents < MaxViewEvents
    /\ viewEvents' = viewEvents + 1
    /\ transform' = [transform EXCEPT ![k] = handleWheel(@, mouse, deltaY)]
    /\ lastOp' = Op("wheel", k, activeColor)
    /\ UNCHANGED <<isPanning, lastPanPoint, imageRenderInfo, container, viewFrame>>

HandleMouseDown(k, button, p) ==
    IF button = 1
    THEN /\ isPanning' = [isPanning EXCEPT ![k] = TRUE]
         /\ lastPanPoint' = [lastPanPoint EXCEPT ![k] = p]
         /\ lastOp' = Op("mouseDown", k, activeColor)
         /\ UNCHANGED <<transform, imageRenderInfo, container, viewFrame, viewEvents>>
    ELSE IF button = 0
    THEN StartPainting(k, p)
    ELSE /\ lastOp' = Op("mouseDown", k, activeColor)
         /\ UNCHANGED <<viewVars, viewFrame, viewEvents>>

HandleMouseMove(k, p) ==
    IF isPanning[k]
    THEN /\ viewEvents < MaxViewEvents
         /\ viewEvents' = viewEvents + 1
         /\ transform' = [transform EXCEPT ![k] =
                            panned(@, p[1] - lastPanPoint[k][1], p[2] - lastPanPoint[k][2])]
         /\ lastPanPoint' = [lastPanPoint EXCEPT ![k] = p]
         /\ lastOp' = Op("pan", k, activeColor)
         /\ UNCHANGED <<isPanning, imageRenderInfo, container, viewFrame>>
    ELSE IF isPainting[k]
    THEN Paint(k, p)
    ELSE /\ lastOp' = Op("mouseMove", k, activeColor)
         /\ UNCHANGED <<viewVars, viewFrame, viewEvents>>

HandleMouseUp(k, button) ==
    IF button = 1
    THEN /\ isPanning' = [isPanning EXCEPT ![k] = FALSE]
         /\ lastOp' = Op("mouseUp", k, activeColor)
         /\ UNCHANGED <<transform, lastPanPoint, imageRenderInfo, container, viewFrame,
                        viewEvents>>
    ELSE IF button = 0
    THEN StopPainting(k)
    ELSE /\ lastOp' = Op("mouseUp", k, activeColor)
         /\ UNCHANGED <<viewVars, viewFrame, viewEvents>>

HandleMouseLeave(k) ==
    /\ IF isPainting[k]
       THEN stopPainting(k)
       ELSE /\ lastOp' = Op("mouseLeave", k, activeColor)
            /\ UNCHANGED <<strokeVars, panelVars, appVars>>
    /\ isPanning' = [isPanning EXCEPT ![k] = FALSE]
    /\ UNCHANGED <<transform, lastPanPoint, imageRenderInfo, container, ghostVars>>

\* onTouchStart, onTouchMove, onTouchEnd
TouchStart(k, p) == StartPainting(k, p)
TouchMove(k, p) == Paint(k, p)
TouchEnd(k) == StopPainting(k)

\* The window is resized and the container takes the given size:
\* fitCanvasToContainer
Resize(k, size) ==
    /\ viewEvents < MaxViewEvents
    /\ viewEvents' = viewEvents + 1
    /\ size # container[k]
    /\ container' = [container EXCEPT ![k] = size]
    /\ imageRenderInfo' = [imageRenderInfo EXCEPT ![k] = fitAndCenterImage(size)]
    /\ lastOp' = Op("resize", k, activeColor)
    /\ UNCHANGED <<transform, isPanning, lastPanPoint, viewFrame>>

\* The imageUrl prop changes and the new image (of the same size) has loaded:
\* image.onload calls fitCanvasToContainer
ImageLoad(k) ==
    /\ imageRenderInfo' = [imageRenderInfo EXCEPT ![k] = fitAndCenterImage(container[k])]
    /\ lastOp' = Op("imageLoad", k, activeColor)
    /\ UNCHANGED <<transform, isPanning, lastPanPoint, container, viewFrame, viewEvents>>

CanCommit(k) == Len(history[k]) < MaxViewStrokes

ViewNext ==
    \/ \E m \in ViewPoints : \E deltaY \in WheelDeltas : HandleWheel(TheCanvas, m, deltaY)
    \/ \E b \in Buttons : \E p \in ViewPoints : HandleMouseDown(TheCanvas, b, p)
    \/ \E p \in ViewPoints : HandleMouseMove(TheCanvas, p)
    \/ \E b \in Buttons : CanCommit(TheCanvas) /\ HandleMouseUp(TheCanvas, b)
    \/ CanCommit(TheCanvas) /\ HandleMouseLeave(TheCanvas)
    \/ \E p \in ViewPoints : TouchStart(TheCanvas, p)
    \/ \E p \in ViewPoints : TouchMove(TheCanvas, p)
    \/ CanCommit(TheCanvas) /\ TouchEnd(TheCanvas)
    \/ \E size \in ContainerSizes : Resize(TheCanvas, size)
    \/ ImageLoad(TheCanvas)
    \/ ClearCanvas(TheCanvas)

SpecView == InitCanvas /\ [][ViewNext]_vars


----------------------------------------------------------------------------
(* Gestures and the view: C21 - C30 *)

\* C21: startPainting, paint, and a stopPainting that ends a gesture without a
\* recorded segment leave the stroke sequence and the cursor of every canvas as
\* they were; a paint while no stroke is in progress also leaves the path in
\* progress (none) as it was.
C21_GesturesKeepHistory ==
    [][\A k \in Canvases :
          /\ (lastOp'.canvas = k /\ lastOp'.op \in {"startPainting", "paint", "mouseMove"})
                => UNCHANGED <<history, historyIndex>>
          /\ (IsOp(lastOp', "stopPainting", k) /\ ~hasPaintedOnPath[k])
                => UNCHANGED <<history, historyIndex>>
          /\ (lastOp'.canvas = k /\ lastOp'.op \in {"paint", "mouseMove"} /\ ~isPainting[k])
                => UNCHANGED <<history, historyIndex, currentPath>>]_vars

\* A click without drag was released on a canvas that holds a stroke
C21_Witness ==
    \E k \in Canvases :
        /\ IsOp(lastOp, "stopPainting", k)
        /\ ~isPainting[k]
        /\ ~hasPaintedOnPath[k]
        /\ lastOp.prevLen = 2
        /\ lastOp.prevIdx = 0
        /\ Len(history[k]) = 2
        /\ historyIndex[k] = 0


\* C22: right after clearCanvas the canvas holds no stroke, its cursor is -1, it
\* has reported no active colour and none is active, and its view is scale 1
\* with both offsets 0.
C22_ClearResetsCanvas ==
    \A k \in Canvases :
        IsOp(lastOp, "clearCanvas", k)
        => /\ history[k] = <<>>
           /\ historyIndex[k] = -1
           /\ ReportedActive(k) = <<>>
           /\ activeColorsOf(history[k], historyIndex[k]) = <<>>
           /\ transform[k].scale = ScaleUnit
           /\ transform[k].offsetX = Rat(0)
           /\ transform[k].offsetY = Rat(0)

\* clearCanvas has run on a canvas that held a stroke, after two wheel or pan
\* events in the container it mounted in
C22_Witness ==
    \E k \in Canvases :
        /\ IsOp(lastOp, "clearCanvas", k)
        /\ lastOp.prevLen = 1
        /\ lastOp.prevIdx = 0
        /\ viewEvents = MaxViewEvents
        /\ container[k] = <<NativeW, NativeH>>
        /\ history[k] = <<>>


\* C23: right after a new image has loaded into a canvas, the view of that
\* canvas is scale 1 with both offsets 0.
C23_ImageLoadResetsView ==
    \A k \in Canvases :
        IsOp(lastOp, "imageLoad", k) => transform[k] = DefaultTransform

\* What the load does bring up to date: the placement rectangle
C23_ImageLoadRefits ==
    \A k \in Canvases :
        IsOp(lastOp, "imageLoad", k)
        => imageRenderInfo[k] = fitAndCenterImage(container[k])


----------------------------------------------------------------------------
(* getMaskBBox on its own: the scan and the padding applied to rasters of    *)
(* several sizes, each given by its set pixels                               *)

\* A side longer than three paddings, so that a box can be clear of both edges
LongSide == 3 * BBoxPadding + 4
ImageSizes == {<<NativeW, NativeH>>, <<LongSide, NativeH>>, <<NativeW, LongSide>>}
PixelsOf(size) == (0..(size[1] - 1)) \X (0..(size[2] - 1))

\* Rasters with no, one or two set pixels: their extent is any extent
Rasters ==
    UNION {{[size |-> size, pixels |-> S, done |-> FALSE, bbox |-> Null] :
              S \in {{}} \cup {{p, q} : p \in PixelsOf(size), q \in PixelsOf(size)}} :
           size \in ImageSizes}

InitBBox == InitState /\ referenceImage = TRUE /\ probe \in Rasters

ApplyMaskBBox ==
    /\ ~probe.done
    /\ probe' = [probe EXCEPT !.done = TRUE,
                              !.bbox = maskBBoxOf(probe.pixels, probe.size[1], probe.size[2])]
    /\ lastOp' = Op("getMaskBBox", "none", activeColor)
    /\ UNCHANGED <<canvasVars, panelVars, appVars, viewEvents>>

BBoxNext == ApplyMaskBBox

SpecBBox == InitBBox /\ [][BBoxNext]_vars

\* C24: the box returned for a raster with a set pixel lies within the image
\* (x >= 0, y >= 0, x + w <= width, y + h <= height) and holds every set pixel.
C24_BBoxWithinImage ==
    (probe # Null /\ probe.done /\ probe.pixels # {})
    => /\ probe.bbox # Null
       /\ probe.bbox[1] >= 0
       /\ probe.bbox[2] >= 0
       /\ probe.bbox[1] + probe.bbox[3] <= probe.size[1]
       /\ probe.bbox[2] + probe.bbox[4] <= probe.size[2]
       /\ \A px \in probe.pixels :
             /\ probe.bbox[1] <= px[1] /\ px[1] < probe.bbox[1] + probe.bbox[3]
             /\ probe.bbox[2] <= px[2] /\ px[2] < probe.bbox[2] + probe.bbox[4]

\* A box for a mask that touches the left edge of a long image and ends clear
\* of the right edge: clamped on one side, padded in full on the other
C24_Witness ==
    /\ probe # Null
    /\ probe.done
    /\ probe.size[1] = LongSide
    /\ \E px \in probe.pixels : px[1] = 0
    /\ probe.bbox[1] = 0
    /\ probe.bbox[3] = BBoxPadding + 3 + 2 * BBoxPadding


\* The active strokes of colour c on canvas k, in order
ActiveStrokes(k, c) == filterColor(slice(history[k], historyIndex[k] + 1), c)

DrawnMask(k, c) ==
    nativeMask(getMaskAsBase64(history[k], historyIndex[k], c), imageRenderInfo[k].width)

\* C26: a resize of the container leaves the stroke sequence and the cursor as
\* they were, and for every colour the mask drawn at native resolution and the
\* bounding box are what they were before the resize.
C26_ResizeKeepsMasks ==
    [][\A k \in Canvases :
          IsOp(lastOp', "resize", k)
          => /\ UNCHANGED <<history, historyIndex>>
             /\ \A c \in Colors :
                   /\ DrawnMask(k, c)' = DrawnMask(k, c)
                   /\ getMaskBBox(history'[k], historyIndex'[k], c, imageRenderInfo'[k].width)
                        = getMaskBBox(history[k], historyIndex[k], c, imageRenderInfo[k].width)]_vars

\* What a resize does keep: the strokes and the cursor, with the placement
\* rectangle fitted to the new container
C26_ResizeKeepsStrokes ==
    [][\A k \in Canvases :
          IsOp(lastOp', "resize", k)
          => /\ UNCHANGED <<history, historyIndex>>
             /\ imageRenderInfo'[k] = fitAndCenterImage(container'[k])]_vars


\* C27: every stroke of every mask is drawn at native resolution with the line
\* width brushSize * renderScale, renderScale being the image's native width
\* over the width of the placement rectangle.
C27_LineWidthScaledOnce ==
    \A k \in Canvases : \A c \in Colors :
        LET mask == getMaskAsBase64(history[k], historyIndex[k], c) IN
        \A j \in 1..Len(mask) :
            DrawnMask(k, c)[j].lineWidth
              = RMul(Rat(mask[j].brushSize), Norm(NativeW, imageRenderInfo[k].width))

\* The width that is drawn: brushSize * renderScale * renderScale, which is the
\* claimed width exactly when the placement is as wide as the image
C27_LineWidthScaledTwice ==
    \A k \in Canvases : \A c \in Colors :
        LET mask == getMaskAsBase64(history[k], historyIndex[k], c)
            renderScale == Norm(NativeW, imageRenderInfo[k].width)
        IN \A j \in 1..Len(mask) :
              DrawnMask(k, c)[j].lineWidth
                = RMul(RMul(Rat(mask[j].brushSize), renderScale), renderScale)


\* C28: the view scale of a canvas stays within [0.1, 10] whatever wheel, pan,
\* paint and clear events happen, and each wheel event sets it to
\* clamp(scale + delta * k, 0.1, 10).
C28_ScaleClamped ==
    /\ [](\A k \in Canvases :
            /\ MinScale <= transform[k].scale
            /\ transform[k].scale <= MaxScale
            /\ transform[k].scale > 0)
    /\ [][lastOp'.op = "wheel" =>
            \E d \in WheelDeltas :
                LET k == lastOp'.canvas
                    wanted == transform[k].scale + scaleAmount(d)
                IN transform'[k].scale
                     = IF wanted < MinScale THEN MinScale
                       ELSE IF wanted > MaxScale THEN MaxScale
                       ELSE wanted]_vars

\* a wheel event that ran into the upper bound
C28_Witness ==
    /\ lastOp.op = "wheel"
    /\ transform[TheCanvas].scale = MaxScale


\* C29: a wheel zoom at pointer position p keeps the image point under p: the
\* point getCoords assigns to p is the same before and after the zoom, for
\* every prior transform and every delta, those that hit the clamp included.
C29_ZoomKeepsPointUnderPointer ==
    [][\A p \in ViewPoints : \A d \in WheelDeltas :
          HandleWheel(TheCanvas, p, d) =>
              LET before == getCoords(transform[TheCanvas], imageRenderInfo[TheCanvas], p)
                  after == getCoords(transform'[TheCanvas], imageRenderInfo'[TheCanvas], p)
              IN /\ after.imageX = before.imageX
                 /\ after.imageY = before.imageY]_vars

\* a zoom away from the origin that hit the clamp and moved the offset
C29_Witness ==
    /\ lastOp.op = "wheel"
    /\ transform[TheCanvas].scale \in {MinScale, MaxScale}
    /\ transform[TheCanvas].offsetX # Rat(0)
    /\ transform[TheCanvas].offsetY # Rat(0)


\* What a pan step may do: move the offset by the given pointer delta and
\* nothing else of the view or of the strokes
PanFrame(k, dx, dy) ==
    /\ transform'[k].scale = transform[k].scale
    /\ transform'[k].offsetX = RAdd(transform[k].offsetX, Rat(dx))
    /\ transform'[k].offsetY = RAdd(transform[k].offsetY, Rat(dy))
    /\ history' = history
    /\ historyIndex' = historyIndex
    /\ currentPath' = currentPath

\* C30: while the middle button is held, pointer motion changes only the view
\* offset, by exactly the pointer's screen-space delta; the scale, the stroke
\* sequence, idx and the path in progress are unchanged, and no pointer motion
\* while panning extends a stroke.
C30_PanningChangesOnlyOffset ==
    [][isPanning[TheCanvas] /\ lastOp'.op \in {"pan", "paint"} =>
          PanFrame(TheCanvas,
                   lastPanPoint'[TheCanvas][1] - lastPanPoint[TheCanvas][1],
                   lastPanPoint'[TheCanvas][2] - lastPanPoint[TheCanvas][2])]_vars

\* The same for the motion of the mouse alone, handleMouseMove
C30_MousePanChangesOnlyOffset ==
    [][\A p \in ViewPoints :
          isPanning[TheCanvas] /\ HandleMouseMove(TheCanvas, p) =>
              PanFrame(TheCanvas,
                       p[1] - lastPanPoint[TheCanvas][1],
                       p[2] - lastPanPoint[TheCanvas][2])]_vars


-----------------------------------------------------------------------------
(* The two canvases of the panel side by side: SpecPair *)

PairDeltas == {-100, 20000}

PairNext ==
    \/ \E k \in Canvases : \E m \in ViewPoints : \E deltaY \in PairDeltas :
          HandleWheel(k, m, deltaY)
    \/ \E k \in Canvases : \E p \in Points :
          /\ \A o \in Canvases \ {k} : ~isPainting[o]
          /\ StartPainting(k, p)
    \/ \E k \in Canvases : \E p \in Points : Paint(k, p)
    \/ \E k \in Canvases :
          /\ Len(history["source"]) + Len(history["ref"]) < MaxTotal
          /\ StopPainting(k)
    \/ PanelUndo
    \/ PanelRedo
    \/ \E c \in Colors : DeleteColor(c)
    \/ HandleReset

SpecPair == InitCanvas /\ [][PairNext]_vars

activeColorsIn(k, src, ref) == IF k = "source" THEN src ELSE ref

-----------------------------------------------------------------------------
(* The worker: field names on the wire and POST /process *)

\* The characters of the strings that occur in field names
Letters(str) ==
    CASE str = "metadata" -> <<"m", "e", "t", "a", "d", "a", "t", "a">>
      [] str = "source_image" ->
            <<"s", "o", "u", "r", "c", "e", "_", "i", "m", "a", "g", "e">>
      [] str = "reference_image" ->
            <<"r", "e", "f", "e", "r", "e", "n", "c", "e", "_", "i", "m", "a", "g", "e">>
      [] str = "source_mask" ->
            <<"s", "o", "u", "r", "c", "e", "_", "m", "a", "s", "k">>
      [] str = "reference_mask" ->
            <<"r", "e", "f", "e", "r", "e", "n", "c", "e", "_", "m", "a", "s", "k">>
      [] str = "pairs" -> <<"p", "a", "i", "r", "s">>

Digits == <<"0", "1", "2", "3", "4", "5", "6", "7", "8", "9">>

\* `${i}`: the decimal digits of a non-negative integer
RECURSIVE decimal(_)
decimal(i) ==
    IF i < 10 THEN <<Digits[i + 1]>>
    ELSE decimal(i \div 10) \o <<Digits[(i % 10) + 1]>>

\* The name form.append is given for a field of the form: 'metadata',
\* 'source_image', 'reference_image', `source_mask_${i}`, `reference_mask_${i}`
fieldname(f) ==
    IF f.index = -1 THEN Letters(f.field)
    ELSE Letters(f.field) \o <<"_">> \o decimal(f.index)

\* The files multer hands to the handler for a form, in upload order
uploaded(form) ==
    [j \in 1..Len(form) |-> [fieldname |-> fieldname(form[j]), buffer |-> j]]

startsWith(name, prefix) ==
    /\ Len(name) >= Len(prefix)
    /\ SubSeq(name, 1, Len(prefix)) = prefix

isDigits(chars) ==
    /\ Len(chars) >= 1
    /\ \A j \in 1..Len(chars) : chars[j] \in Range(Digits)

\* /^(metadata|source_image|reference_image|source_mask_\d+|reference_mask_\d+)$/
allowedField(name) ==
    \/ name \in {Letters("metadata"), Letters("source_image"), Letters("reference_image")}
    \/ \E str \in {"source_mask", "reference_mask"} :
          LET prefix == Letters(str) \o <<"_">> IN
          /\ startsWith(name, prefix)
          /\ isDigits(SubSeq(name, Len(prefix) + 1, Len(name)))

\* files.find(f => f.fieldname === name): is there one
hasOne(files, name) == \E j \in 1..Len(files) : files[j].fieldname = name

\* a.fieldname.split("_").pop() || "0"
lastSegment(name) ==
    LET underscores == {j \in 1..Len(name) : name[j] = "_"}
        segment == IF underscores = {} THEN name
                   ELSE SubSeq(name, SetMax(underscores) + 1, Len(name))
    IN IF segment = <<>> THEN <<"0">> ELSE segment

\* parseInt(digits, 10), for a string of digits (which is what the names that
\* passed allowedField end in)
RECURSIVE parseInt(_)
parseInt(chars) ==
    IF chars = <<>> THEN 0
    ELSE 10 * parseInt(SubSeq(chars, 1, Len(chars) - 1))
           + (CHOOSE d \in 0..9 : Digits[d + 1] = chars[Len(chars)])

maskIndex(file) == parseInt(lastSegment(file.fieldname))

\* Array.prototype.sort with (a, b) => ai - bi: ascending by index, files of
\* equal index in their upload order
RECURSIVE sortByIndex(_)
sortByIndex(list) ==
    IF list = <<>> THEN <<>>
    ELSE LET file == list[Len(list)]
             sorted == sortByIndex(SubSeq(list, 1, Len(list) - 1))
             before == Cardinality({j \in 1..Len(sorted) :
                                      maskIndex(sorted[j]) <= maskIndex(file)})
         IN SubSeq(sorted, 1, before) \o <<file>>
              \o SubSeq(sorted, before + 1, Len(sorted))

listMaskArray(files, prefix) ==
    sortByIndex(SelectSeq(files, LAMBDA f : startsWith(f.fieldname, prefix)))

Rejected(status, message) == [status |-> status, message |-> message, pairs |-> <<>>]

\* POST /process up to the building of `pairs` (the MIME types of the files
\* are taken to be image types)
process(files) ==
    LET sourceMasks == listMaskArray(files, Letters("source_mask") \o <<"_">>)
        refMasks == listMaskArray(files, Letters("reference_mask") \o <<"_">>)
    IN IF \E j \in 1..Len(files) : ~allowedField(files[j].fieldname)
       THEN Rejected(400, "Unexpected field")
       ELSE IF ~hasOne(files, Letters("source_image"))
               \/ ~hasOne(files, Letters("reference_image"))
       THEN Rejected(400, "Missing file(s)")
       ELSE IF Len(sourceMasks) = 0 \/ Len(refMasks) = 0
       THEN Rejected(400, "No masks found")
       ELSE IF Len(sourceMasks) # Len(refMasks)
       THEN Rejected(400, "Mask count mismatch")
       ELSE [status |-> 200, message |-> "",
             pairs |-> [i \in 1..Len(sourceMasks) |->
                          [index |-> i - 1, sMask |-> sourceMasks[i],
                           rMask |-> refMasks[i]]]]

\* C32: every field name the client's submitCorrection emits is accepted by the
\* worker's allowed-field check, and every request handleGenerate assembles has
\* both images and equal, non-zero numbers of source and reference masks: the
\* worker rejects no assembled request for its field names or its mask counts.
C32_AssembledRequestAccepted ==
    \A n \in 1..Len(inflight) :
        inflight[n].form # <<>> =>
            LET files == uploaded(inflight[n].form)
                nSource == Cardinality({j \in 1..Len(files) :
                              startsWith(files[j].fieldname, Letters("source_mask"))})
                nRef == Cardinality({j \in 1..Len(files) :
                              startsWith(files[j].fieldname, Letters("reference_mask"))})
            IN /\ \A j \in 1..Len(files) : allowedField(files[j].fieldname)
               /\ hasOne(files, Letters("source_image"))
               /\ hasOne(files, Letters("reference_image"))
               /\ nSource = nRef
               /\ nSource >= 1
               /\ process(files).status = 200

\* a request with two mask pairs has been assembled
C32_Witness ==
    \E n \in 1..Len(inflight) :
        /\ inflight[n].pc = "fetch"
        /\ Len(inflight[n].form) = 7
        /\ Len(process(uploaded(inflight[n].form)).pairs) = 2


-----------------------------------------------------------------------------
(* Requests to the worker from any client: SpecWorker *)

MaxMasks == 4
MaxIndex == 2

OtherFields ==
    {Letters("metadata"), Letters("source_image"), Letters("reference_image"),
     Letters("pairs")}

MaskNames ==
    {Letters(str) \o <<"_">> \o decimal(i) :
        str \in {"source_mask", "reference_mask"}, i \in 0..MaxIndex}
      \cup {Letters("source_mask") \o <<"_", "0", "1">>}

\* The sequences over a set of names in which the names are in a fixed order:
\* one for each subset
RECURSIVE inSomeOrder(_)
inSomeOrder(S) ==
    IF S = {} THEN <<>>
    ELSE LET name == CHOOSE x \in S : TRUE IN <<name>> \o inSomeOrder(S \ {name})

\* A request: some of the fields without index, then mask fields in any upload
\* order, repeated names included
Requests ==
    {[j \in 1..Len(names) |-> [fieldname |-> names[j], buffer |-> j]] :
        names \in {inSomeOrder(others) \o masks :
                     others \in SUBSET OtherFields,
                     masks \in SeqsUpTo(MaskNames, MaxMasks)}}

InitWorker ==
    /\ InitState
    /\ referenceImage = TRUE
    /\ probe \in {[files |-> files, result |-> Null] : files \in Requests}

PostProcess ==
    /\ probe.result = Null
    /\ probe' = [probe EXCEPT !.result = process(probe.files)]
    /\ lastOp' = Op("process", "none", activeColor)
    /\ UNCHANGED <<canvasVars, panelVars, appVars, viewEvents>>

WorkerNext == PostProcess

SpecWorker == InitWorker /\ [][WorkerNext]_vars

Accepted == probe.result # Null /\ probe.result.status = 200

\* C33: for every request the worker accepts, each pair it processes is the
\* source mask and the reference mask of one index, and the pairs are in
\* ascending order of that index; a source mask is never combined with a
\* reference mask of another index.
C33_PairsShareIndex ==
    Accepted =>
        LET pairs == probe.result.pairs IN
        /\ \A i \in 1..Len(pairs) :
              maskIndex(pairs[i].sMask) = maskIndex(pairs[i].rMask)
        /\ \A i \in 1..Len(pairs) : \A j \in 1..Len(pairs) :
              i < j => maskIndex(pairs[i].sMask) < maskIndex(pairs[j].sMask)

\* What the worker does ensure: each side is taken in ascending order of index
C33_EachSideAscending ==
    Accepted =>
        LET pairs == probe.result.pairs IN
        \A i \in 1..Len(pairs) : \A j \in 1..Len(pairs) :
            i < j => /\ maskIndex(pairs[i].sMask) <= maskIndex(pairs[j].sMask)
                     /\ maskIndex(pairs[i].rMask) <= maskIndex(pairs[j].rMask)

\* Requests of the shape submitCorrection sends, in any upload order: indices
\* 0..n-1, each once on either side
ClientShaped ==
    LET masks == SelectSeq(probe.files, LAMBDA f : f.fieldname \in MaskNames)
    IN \E n \in 1..MaxMasks :
          /\ Len(masks) = 2 * n
          /\ \A str \in {"source_mask", "reference_mask"} : \A i \in 0..(n - 1) :
                \E j \in 1..Len(masks) :
                    masks[j].fieldname = Letters(str) \o <<"_">> \o decimal(i)

\* For those requests the pairs do share their index
C33_ClientShapedPairsShareIndex ==
    Accepted /\ ClientShaped =>
        \A i \in 1..Len(probe.result.pairs) :
            /\ maskIndex(probe.result.pairs[i].sMask) = i - 1
            /\ maskIndex(probe.result.pairs[i].rMask) = i - 1


-----------------------------------------------------------------------------
(* submitCorrection, the variant that names mask fields by colour, against a
   failing response: SpecColorSubmit *)

\* The error objects of the worker's global error handler, and objects with
\* neither field filled
ColorJsonErrors ==
    [error : {"Bad Request", ""}, detail : {"Missing required file: source_image", ""}]

ColorBodies ==
    [kind : {"json"}, json : ColorJsonErrors, text : {""}]
        \cup [kind : {"text"}, json : {Null}, text : {"upstream timed out"}]
        \cup [kind : {"empty", "unreadable"}, json : {Null}, text : {""}]

ColorResponses ==
    [status : {400, 415, 500}, statusText : {"Error", ""}, body : ColorBodies]

\* errJson.detail || errJson.error || res.statusText
jsonMessage(res) ==
    IF res.body.json.detail # "" THEN res.body.json.detail
    ELSE IF res.body.json.error # "" THEN res.body.json.error
    ELSE res.statusText

\* await res.text().catch(() => '') in the catch block: a body that res.json()
\* has read cannot be read again and the read rejects; a response without a
\* body reads as ''
textAfterJson(res) == ""

InitColorSubmit ==
    /\ InitState
    /\ referenceImage = TRUE
    /\ probe \in [res : ColorResponses, pc : {"json"}, caught : {Null},
                  message : {Null}]

\* await res.json(): an error object is parsed and the Error with its message
\* is thrown inside the try block, where the catch clause catches it; any
\* other body makes res.json() reject, which the same clause catches
AwaitJson ==
    /\ probe.pc = "json"
    /\ probe' = [probe EXCEPT
                   !.pc = "catch",
                   !.caught = IF probe.res.body.kind = "json"
                              THEN "Worker " \o ToString(probe.res.status) \o ": "
                                     \o jsonMessage(probe.res)
                              ELSE "SyntaxError"]
    /\ lastOp' = Op("submit:json", "none", activeColor)
    /\ UNCHANGED <<canvasVars, panelVars, appVars, viewEvents>>

\* The catch clause: the text is awaited and the Error that leaves
\* submitCorrection is thrown
AwaitText ==
    /\ probe.pc = "catch"
    /\ probe' = [probe EXCEPT
                   !.pc = "thrown",
                   !.message = "Worker " \o ToString(probe.res.status) \o ": "
                                 \o (IF textAfterJson(probe.res) # ""
                                     THEN textAfterJson(probe.res)
                                     ELSE probe.res.statusText)]
    /\ lastOp' = Op("submit:text", "none", activeColor)
    /\ UNCHANGED <<canvasVars, panelVars, appVars, viewEvents>>

ColorSubmitNext == AwaitJson \/ AwaitText

SpecColorSubmit == InitColorSubmit /\ [][ColorSubmitNext]_vars

\* C34: a non-2xx response whose body is JSON with a detail or error field
\* makes submitCorrection throw an error with the message
\* 'Worker <status>: <detail or error>'; the raw text or the status line is
\* used only when the body is not JSON.
C34_JsonErrorReachesCaller ==
    probe.pc = "thrown" =>
        LET res == probe.res IN
        /\ res.body.kind = "json" /\ (res.body.json.detail # "" \/ res.body.json.error # "")
              => probe.message = "Worker " \o ToString(res.status) \o ": " \o jsonMessage(res)
        /\ probe.message # "Worker " \o ToString(res.status) \o ": " \o jsonMessage(res)
              => res.body.kind # "json"

\* What the caller gets: the status line, whatever the body
C34_StatusLineOnly ==
    probe.pc = "thrown" =>
        probe.message = "Worker " \o ToString(probe.res.status) \o ": "
                          \o probe.res.statusText


-----------------------------------------------------------------------------
(* handleGenerate when every awaited step settles: SpecSubmitLive *)

\* An awaited promise of some invocation settles and the invocation resumes
Settle ==
    \E n \in 1..Len(inflight) :
        \/ GenRefMask(n)
        \/ GenCheck(n)
        \/ \E ocr \in OcrOutcomes : \E vec \in VectorOutcomes : GenPush(n, ocr, vec)
        \/ GenTransportError(n)
        \/ \E res \in FailedResponses : GenNotOk(n, res)
        \/ GenErrorBody(n)
        \/ \E dims \in ResultSizes : GenResponse(n, dims)
        \/ GenLoaded(n)

\* The submission of SpecSubmit, with undo and redo at the panel while the
\* request is being assembled
SubmitLiveNext ==
    \/ CallGenerate
    \/ Assembling /\ PanelUndo
    \/ Assembling /\ PanelRedo
    \/ Settle

\* Each awaited step settles: weak fairness of Settle. Settle is enabled exactly
\* when an invocation is in flight (every pc has a step, and a step changes
\* inflight), so WF_vars(Settle) is written with that enabling condition.
SettleFairness == []<>(inflight = <<>>) \/ []<><<Settle>>_vars

SpecSubmitLive == InitSubmit /\ [][SubmitLiveNext]_vars /\ SettleFairness

\* C35: every invocation of handleGenerate that sets the loading state clears
\* it in the end, whichever way the submission ends, given that each awaited
\* step settles; and the loading state is true only while a submission is in
\* flight.
C35_LoadingEventuallyCleared ==
    /\ isLoading ~> ~isLoading
    /\ [](isLoading => inflight # <<>>)
    /\ [](inflight # <<>> => <>(inflight = <<>>))

\* submissions that ended without valid pairs, and with a result, with the
\* loading state cleared
C35_Witness ==
    /\ ~isLoading
    /\ inflight = <<>>
    /\ lastOp.op \in {"generate:noValidPairs", "generate:corrected",
                      "generate:dimensionMismatch", "generate:transportError"}


-----------------------------------------------------------------------------
(* Events during the assembly of a request: C36 *)

\* The bounding box of a mask that was sent, computed from the mask itself
bboxOfMask(mask, k) ==
    maskBBoxOf(setPixels(mask.raster, imageRenderInfo[k].width), NativeW, NativeH)

\* C36: the pairs, the masks and the bounding boxes of a request reflect one
\* state of the two histories, also when undo and redo arrive while the request
\* is assembled: in no pair do mask and bounding box come from different
\* history states, and the colour of every pair is active on both canvases when
\* the request is sent.
C36_RequestFromOneHistoryState ==
    \A n \in 1..Len(inflight) :
        LET g == inflight[n] IN
        g.pc = "fetch" =>
            \A j \in 1..Len(g.pairs) :
                /\ g.pairs[j].sourceBBox = bboxOfMask(g.sourceMasks[j], "source")
                /\ g.pairs[j].referenceBBox = bboxOfMask(g.referenceMasks[j], "ref")
                /\ lastOp.op = "generate:submit" => g.pairs[j].colorId \in ActiveOnBoth

\* The two masks of a pair, on their own, are those of the pair's colour
C36_MasksOfPairColour ==
    \A n \in 1..Len(inflight) :
        LET g == inflight[n] IN
        \A j \in 1..Len(g.pairs) :
            /\ g.sourceMasks[j].maskColor = g.pairs[j].colorId
            /\ g.referenceMasks[j].maskColor = g.pairs[j].colorId


-----------------------------------------------------------------------------
(* The panel's active-colour sets: C37 *)

\* C37: whenever the canvases are shown, also after a result has been shown
\* and the user has gone back to painting, the panel's source and reference
\* active-colour sets are the colours of the strokes at positions <= idx of the
\* canvas's history (and with them the paired colours and the enabling of
\* generate).
C37_ActiveColoursMatchHistories ==
    Mounted =>
        /\ Range(sourceActiveColors) = ActiveColorsOn("source")
        /\ Range(refActiveColors) = ActiveColorsOn("ref")
        /\ Range(pairedColors) = ActiveOnBoth


-----------------------------------------------------------------------------
(* Undo followed by redo at the panel: C38 *)

\* The redo that follows an undo on canvas k puts both canvases back
RestoredBy(k) ==
    /\ lastOp'.canvas = k
    /\ history' = [history EXCEPT ![k] = lastOp.undone[1]]
    /\ historyIndex' = [historyIndex EXCEPT ![k] = lastOp.undone[2]]

\* C38: where some canvas can undo, an undo at the panel followed at once by a
\* redo gives both canvases the histories and cursors they had before the
\* undo; the redo goes to the canvas the undo acted on.
C38_UndoThenRedoRestores ==
    [][(/\ lastOp.op = "undo"
        /\ lastOp.canvas \in Canvases
        /\ lastOp.undone # <<>>
        /\ lastOp'.op = "redo")
          => RestoredBy(lastOp.canvas)]_vars

\* The same when the undo acted on the canvas that was painted on last
C38_RestoresOnLastPainted ==
    [][(/\ lastOp.op = "undo"
        /\ lastOp.canvas = lastPaintedCanvas
        /\ lastOp.undone # <<>>
        /\ lastOp'.op = "redo")
          => RestoredBy(lastOp.canvas)]_vars


----------------------------------------------------------------------------
(* deletePathsForColor and the cursor *)

\* the stroke at position p (from 1) of a history with cursor i is drawn
isActiveAt(p, i) == p - 1 <= i

\* C39: deletePathsForColor(c) leaves every surviving stroke as it was: a stroke
\* of another colour is active after the call exactly if it was active before it.
C39_DeleteKeepsActiveness ==
    [][\A k \in Canvases : \A c \in Colors :
          (IsOp(lastOp', "deletePathsForColor", k) /\ lastOp'.color = c)
          => \A j \in 1..Len(history'[k]) :
                isActiveAt(j, historyIndex'[k])
                    <=> isActiveAt(KeptPosition(history[k], c, j), historyIndex[k])]_vars

\* the half that the filter and the clamp do keep: an active stroke of another
\* colour stays active
C39_ActiveStaysActive ==
    [][\A k \in Canvases : \A c \in Colors :
          (IsOp(lastOp', "deletePathsForColor", k) /\ lastOp'.color = c)
          => \A j \in 1..Len(history'[k]) :
                isActiveAt(KeptPosition(history[k], c, j), historyIndex[k])
                    => isActiveAt(j, historyIndex'[k])]_vars


----------------------------------------------------------------------------
(* getMaskBBox: how far the box reaches beyond the set pixels *)

\* How far the box <<x, y, w, h>> reaches beyond the extent <<minX, minY, maxX,
\* maxY>> on the left, top, right and bottom
reach(bbox, ext) ==
    <<ext[1] - bbox[1], ext[2] - bbox[2],
      (bbox[1] + bbox[3]) - (ext[3] + 1), (bbox[2] + bbox[4]) - (ext[4] + 1)>>

\* C40: the returned box reaches at most 12 pixels beyond the tight rectangle of
\* the set pixels on each of its four sides, also when the padding is clamped at
\* the left or the top edge of the image.
C40_PaddingAtMostTwelvePerSide ==
    (probe # Null /\ probe.done /\ probe.pixels # {})
    => \A side \in 1..4 : reach(probe.bbox, maskExtent(probe.pixels))[side] <= BBoxPadding

\* what the padding does keep: at most 12 pixels on the left and on the top, at
\* most 24 in all along each axis, and at most 12 on every side of a mask that
\* lies 12 pixels or more from the left and the top edge
C40_PaddingAtMostTwelveUnclamped ==
    (probe # Null /\ probe.done /\ probe.pixels # {})
    => LET ext == maskExtent(probe.pixels)
           r == reach(probe.bbox, ext)
       IN /\ r[1] <= BBoxPadding /\ r[2] <= BBoxPadding
          /\ r[1] + r[3] <= 2 * BBoxPadding /\ r[2] + r[4] <= 2 * BBoxPadding
          /\ ext[1] >= BBoxPadding => r[3] <= BBoxPadding
          /\ ext[2] >= BBoxPadding => r[4] <= BBoxPadding

=============================================================================
